---- MODULE Spec2Model ----
(***************************************************************************)
(* Order entity of the trading kernel (src/domain/entities/order.entity.ts)*)
(* as a state machine: one Order built by Order.create, and one action per *)
(* public mutator.  A call that throws leaves the order's props untouched  *)
(* and is recorded in lastError; lastCall records the call and its         *)
(* arguments.  A quantity is a decimal counted in hundredths (7 is 0.07);  *)
(* the code sums and compares quantities through Amount.value, a           *)
(* JavaScript number, and the model computes those IEEE-754 doubles        *)
(* exactly.                                                                *)
(***************************************************************************)
EXTENDS Integers, Sequences, FiniteSets, TLC

VARIABLES
    parameters,       \* props.parameters : OrderParameters (pair, type, quantity)
    status,           \* props.status : OrderStatus
    exchangeOrderId,  \* props.exchangeOrderId?
    fills,            \* props.fills : Fill[]
    createdAt,        \* props.createdAt
    updatedAt,        \* props.updatedAt
    submittedAt,      \* props.submittedAt?
    completedAt,      \* props.completedAt?
    rejectionReason,  \* props.rejectionReason?
    now,              \* last value read from the clock (Timestamp.now)
    lastCall,         \* the last method called on an entity, with its arguments
    lastError,        \* the exception that call threw, or NoError
    richPosition,     \* props of a Position of position.entity.ts:69-689
    simplePosition,   \* props of a Position of position.entity.ts:749-1134
    orderBook,        \* an OrderBookSnapshotVo: pair, bids, asks
    callerArrays,     \* the arrays the caller handed to OrderBookSnapshotVo.from
    lastResult        \* what the last query of the snapshot returned

orderProps == <<parameters, status, exchangeOrderId, fills, createdAt, updatedAt,
                submittedAt, completedAt, rejectionReason>>
positions == <<richPosition, simplePosition>>
bookVars == <<orderBook, callerArrays, lastResult>>
vars == <<parameters, status, exchangeOrderId, fills, createdAt, updatedAt,
          submittedAt, completedAt, rejectionReason, now, lastCall, lastError,
          richPosition, simplePosition, orderBook, callerArrays, lastResult>>

----------------------------------------------------------------------------
(* Bounds of the model *)

\* Largest requested order quantity, in hundredths of the base asset.
MaxQuantity == 3
\* Largest executed quantity of one fill, in hundredths.
MaxFillQuantity == 2
\* Largest requested quantity, in hundredths, of the orders that are filled
\* in many small fills (FractionalSpec).
MaxFractionalQuantity == 7
\* Number of clock values after the one Order.create reads.
MaxTime == 1

----------------------------------------------------------------------------
(* Values *)

\* OrderStatus enum.
OrderStatus == {"PENDING", "SUBMITTED", "OPEN", "PARTIALLY_FILLED", "FILLED",
                "CANCELLED", "REJECTED", "FAILED"}
\* OrderType enum.
OrderType == {"MARKET", "STOP_LOSS", "TAKE_PROFIT"}

\* Trading pairs, by symbol BASE/QUOTE.
Pairs == {"BTC/USDT", "ETH/USDT"}
\* Exchange order ids handed out by the exchange (non-empty strings).
ExchangeOrderIds == {"EX-1", "EX-2"}
\* Reasons passed to markRejected / markFailed.
Reasons == {"insufficient balance", "timeout"}

\* An optional field that is not set.
Undefined == "undefined"
\* An optional Timestamp that is not set; clock values are > 0.
NoTime == 0

\* Exceptions of the domain.
NoError == "none"
InvalidStateTransitionException == "InvalidStateTransitionException"
OrderValidationException == "OrderValidationException"

\* The pair the order under study trades (the other pair is symmetric).
OrderPair == "BTC/USDT"

\* OrderParameters the factories marketBuy/marketSell/stopLoss/takeProfit
\* accept: quantity > 0, in the pair's base asset.
OrderParametersSet ==
    [pair : {OrderPair}, type : OrderType, quantity : 1..MaxQuantity]

\* Fills the Fill constructor accepts: executed quantity > 0, in the base
\* asset of the fill's pair.
FillSet ==
    [pair : Pairs, exchangeOrderId : ExchangeOrderIds,
     executedQuantity : 1..MaxFillQuantity]

\* Placeholder for the arguments a call does not take.
NoFill == [pair |-> Undefined, exchangeOrderId |-> Undefined, executedQuantity |-> 0]
Call(op, id, reason, fill) ==
    [op |-> op, exchangeOrderId |-> id, reason |-> reason, fill |-> fill]

----------------------------------------------------------------------------
(* Pure queries *)

\* OrderParameters.isMarketOrder
isMarketOrder(p) == p.type = "MARKET"

\* Fill.matchesOrder
matchesOrder(fill, id) == fill.exchangeOrderId = id

----------------------------------------------------------------------------
(* JavaScript numbers.  The double x is held exactly as the record          *)
(* [hundredths |-> k, eps |-> d] with x = (k + d / 2^59) / 100: k is the    *)
(* decimal the value stands for and d the (small) representation error.     *)

RECURSIVE pow2(_)
pow2(n) == IF n = 0 THEN 1 ELSE 2 * pow2(n - 1)

\* 2^n modulo 25.
RECURSIVE pow2mod25(_)
pow2mod25(n) == IF n = 0 THEN 1 ELSE (2 * pow2mod25(n - 1)) % 25

\* Whether the real (k + d/2^59)/100 is at least 2^e.
atLeastPow2(k, d, e) ==
    IF e <= 0
    THEN LET a == k * pow2(0 - e) IN a > 100 \/ (a = 100 /\ d >= 0)
    ELSE LET b == 100 * pow2(e) IN k > b \/ (k = b /\ d >= 0)

\* The binary exponent e of a positive real: 2^e <= x < 2^(e+1).
exponentOf(k, d) ==
    CHOOSE e \in (0 - 7)..3 : atLeastPow2(k, d, e) /\ ~atLeastPow2(k, d, e + 1)

\* Round-to-nearest, ties-to-even, of the real (k + d/2^59)/100 to a double
\* (53-bit significand): one unit in the last place is 2^(e-52), that is
\* 100 * 2^(e+7) in units of 1/(100 * 2^59).  A whole number (below 2^53)
\* is a double.
roundToDouble(k, d) ==
    IF k % 100 = 0 /\ d = 0 THEN [hundredths |-> k, eps |-> 0]
    ELSE LET e     == exponentOf(k, d)
             ulp   == 100 * pow2(e + 7)
             twice == (pow2(e + 10) * (((k % 25) * pow2mod25(49 - e)) % 25) + d)
                          % (2 * ulp)
             rest  == twice % ulp
             odd   == twice \div ulp
             down  == [hundredths |-> k, eps |-> d - rest]
             up    == [hundredths |-> k, eps |-> d - rest + ulp]
         IN  IF rest = 0 THEN [hundredths |-> k, eps |-> d]
             ELSE IF 2 * rest < ulp THEN down
             ELSE IF 2 * rest > ulp THEN up
             ELSE IF odd = 0 THEN down ELSE up

\* -x on JavaScript numbers.
numberNegate(x) == [hundredths |-> 0 - x.hundredths, eps |-> 0 - x.eps]

\* Round-to-nearest of a real of either sign; rounding is symmetric about 0,
\* and a real with k = 0 is the difference of two doubles within a factor
\* of two of each other, which is a double.
roundSigned(k, d) ==
    IF k > 0 THEN roundToDouble(k, d)
    ELSE IF k < 0 THEN numberNegate(roundToDouble(0 - k, 0 - d))
    ELSE [hundredths |-> 0, eps |-> d]

\* Amount.value / Price.value: Decimal.toNumber() of a decimal of k hundredths.
toNumber(k) == roundSigned(k, 0)

\* x + y on JavaScript numbers.
numberAdd(x, y) == roundToDouble(x.hundredths + y.hundredths, x.eps + y.eps)

\* x - y on JavaScript numbers.
numberSubtract(x, y) == roundSigned(x.hundredths - y.hundredths, x.eps - y.eps)

\* x * y on JavaScript numbers, for y a whole number (y = n exactly): the
\* double nearest to the real n * x.
numberTimes(x, y) ==
    LET n == y.hundredths \div 100
    IN  roundSigned(n * x.hundredths, n * x.eps)

\* x >= y on JavaScript numbers.
numberGE(x, y) ==
    \/ x.hundredths > y.hundredths
    \/ x.hundredths = y.hundredths /\ x.eps >= y.eps

\* x > y on JavaScript numbers.
numberGT(x, y) == ~numberGE(y, x)

\* The whole number n as a JavaScript number.
whole(n) == toNumber(100 * n)

\* Greatest common divisor of two positive whole numbers.
RECURSIVE gcd(_, _)
gcd(a, b) == IF b = 0 THEN a ELSE gcd(b, a % b)

\* a / b on whole numbers, b > 0: the quotient as a fraction in lowest
\* terms (the JavaScript number is the double nearest to it).
numberDivide(a, b) ==
    LET g == gcd(a, b) IN [num |-> a \div g, den |-> b \div g]

\* 2^n modulo m.
RECURSIVE pow2mod(_, _)
pow2mod(n, m) == IF n = 0 THEN 1 % m ELSE (2 * pow2mod(n - 1, m)) % m

\* Reals next to a quotient of whole numbers: (a, b, o) stands for the real
\* a / b + o / (b^2 * 2^59), with a > 0, b > 0 and o small.
\* Whether that real is at least 2^e.
quotientAtLeastPow2(a, b, o, e) ==
    LET left  == IF e >= 0 THEN a ELSE a * pow2(0 - e)
        right == IF e >= 0 THEN b * pow2(e) ELSE b
    IN  left > right \/ (left = right /\ o >= 0)

\* The binary exponent e of that real: 2^e <= x < 2^(e+1).
exponentOfQuotient(a, b, o) ==
    CHOOSE e \in (0 - 7)..15 :
        quotientAtLeastPow2(a, b, o, e) /\ ~quotientAtLeastPow2(a, b, o, e + 1)

\* Round-to-nearest, ties-to-even, of the real (a, b, o) to a double: the
\* eps o' of the double a / b + o' / (b^2 * 2^59).  One unit in the last
\* place is b^2 * 2^(e+7) in units of 1 / (b^2 * 2^59).  The real may lie
\* off (a, b, o) by less than one unit, on the side given by the sign of
\* `beyond`; that decides a tie.
roundQuotient(a, b, o, beyond) ==
    LET e      == exponentOfQuotient(a, b, o)
        ulp    == b * b * pow2(e + 7)
        ofAB   == b * pow2(e + 8) * (((a % b) * pow2mod(51 - e, b)) % b)
        twice  == (ofAB + (o % (2 * ulp))) % (2 * ulp)
        rest   == twice % ulp
        odd    == twice \div ulp
        down   == o - rest
        up     == o - rest + ulp
    IN  IF rest = 0 THEN o
        ELSE IF 2 * rest < ulp THEN down
        ELSE IF 2 * rest > ulp THEN up
        ELSE IF beyond > 0 THEN up
        ELSE IF beyond < 0 THEN down
        ELSE IF odd = 0 THEN down ELSE up

\* The sign of a whole number.
sign(n) == IF n > 0 THEN 1 ELSE IF n < 0 THEN 0 - 1 ELSE 0

\* Order.getTotalFilledQuantity: reduce over the fills with +, starting
\* from 0; the Amount it returns holds that number unchanged.
RECURSIVE SumExecuted(_)
SumExecuted(fs) ==
    IF Len(fs) = 0 THEN toNumber(0)
    ELSE numberAdd(SumExecuted(SubSeq(fs, 1, Len(fs) - 1)),
                   toNumber(fs[Len(fs)].executedQuantity))

getTotalFilledQuantity(fs) == SumExecuted(fs)

\* Order.isTerminal
isTerminal(st) == st \in {"FILLED", "CANCELLED", "REJECTED", "FAILED"}

\* Order.isActive
isActive(st) == st \in {"PENDING", "SUBMITTED", "OPEN", "PARTIALLY_FILLED"}

----------------------------------------------------------------------------
(* Order.create *)

\* Order.create(parameters)
create(p) ==
    /\ parameters = p
    /\ status = "PENDING"
    /\ exchangeOrderId = Undefined
    /\ fills = << >>
    /\ now = 1
    /\ createdAt = now
    /\ updatedAt = now
    /\ submittedAt = NoTime
    /\ completedAt = NoTime
    /\ rejectionReason = Undefined
    /\ lastCall = Call("create", Undefined, Undefined, NoFill)
    /\ lastError = NoError

\* No Position has been constructed.
NoPosition == [status |-> "NONE"]
NoPositions == richPosition = NoPosition /\ simplePosition = NoPosition

\* No OrderBookSnapshotVo has been constructed, and no query has returned.
NoOrderBook == [pair |-> Undefined, bids |-> << >>, asks |-> << >>]
NoResult == [error |-> NoError]
NoSnapshot ==
    /\ orderBook = NoOrderBook
    /\ callerArrays = [bids |-> << >>, asks |-> << >>]
    /\ lastResult = NoResult

Init == NoPositions /\ NoSnapshot /\ \E p \in OrderParametersSet : create(p)

\* A call that throws: nothing of the order changes.
Throw(call, exception) ==
    /\ lastCall' = call
    /\ lastError' = exception
    /\ UNCHANGED <<orderProps, now, positions, bookVars>>

\* A call that returns normally.
Return(call) ==
    /\ lastCall' = call
    /\ lastError' = NoError
    /\ UNCHANGED <<positions, bookVars>>

----------------------------------------------------------------------------
(* Mutators *)

\* The clock never runs backwards; LastTime is the last value the model reads.
LastTime == 1 + MaxTime

\* The submit guard left out.
markSubmittedNeverRefused(st) == FALSE

\* Order.markSubmitted, the status in which it throws.
markSubmittedRefused(st) == st # "PENDING"

\* Order.markSubmitted(exchangeOrderId)
markSubmitted(id) ==
    LET call == Call("markSubmitted", id, Undefined, NoFill) IN
    IF markSubmittedRefused(status)
    THEN Throw(call, InvalidStateTransitionException)
    ELSE \E t1 \in now..LastTime : \E t2 \in t1..LastTime :
            /\ exchangeOrderId' = id
            /\ status' = "SUBMITTED"
            /\ submittedAt' = t1
            /\ updatedAt' = t2
            /\ now' = t2
            /\ Return(call)
            /\ UNCHANGED <<parameters, fills, createdAt, completedAt, rejectionReason>>

\* Order.markOpen, the status in which it throws.
markOpenRefused(st) == st # "SUBMITTED"

\* Order.markOpen()
markOpen ==
    LET call == Call("markOpen", Undefined, Undefined, NoFill) IN
    IF markOpenRefused(status)
    THEN Throw(call, InvalidStateTransitionException)
    ELSE \E t \in now..LastTime :
            /\ status' = "OPEN"
            /\ updatedAt' = t
            /\ now' = t
            /\ Return(call)
            /\ UNCHANGED <<parameters, exchangeOrderId, fills, createdAt, submittedAt,
                           completedAt, rejectionReason>>

\* The first guard left out.
fillBelongsAlways(id, fill) == TRUE

\* Order.addFill, first guard: the fill must carry the order's exchange order
\* id once the order has one.
fillBelongsToOrder(id, fill) ==
    ~(id # Undefined /\ ~matchesOrder(fill, id))

\* The status guard with every active status taking fills, whatever the type.
fillAllowedWhileActive(p, st) == isActive(st)

\* The status guard with the branch of the resting orders left out.
fillAllowedMarketChecked(p, st) ==
    IF isMarketOrder(p)
    THEN ~(st # "SUBMITTED" /\ st # "PENDING")
    ELSE TRUE

\* Order.addFill, second guard: the statuses in which an order of these
\* parameters takes a fill.
fillAllowedInStatus(p, st) ==
    IF isMarketOrder(p)
    THEN ~(st # "SUBMITTED" /\ st # "PENDING")
    ELSE ~(st # "OPEN" /\ st # "PARTIALLY_FILLED")

\* Order.addFill, the "fully filled" test after the push:
\* totalFilled.value >= orderQuantity.value.
isFullyFilled(totalFilled, orderQuantity) ==
    numberGE(totalFilled, toNumber(orderQuantity))

\* Order.addFill(fill)
addFill(fill) ==
    LET call == Call("addFill", Undefined, Undefined, fill) IN
    IF ~fillBelongsToOrder(exchangeOrderId, fill)
    THEN Throw(call, OrderValidationException)
    ELSE IF ~fillAllowedInStatus(parameters, status)
    THEN Throw(call, InvalidStateTransitionException)
    ELSE LET pushed == Append(fills, fill)
             totalFilled == getTotalFilledQuantity(pushed)
         IN  /\ fills' = pushed
             /\ IF isFullyFilled(totalFilled, parameters.quantity)
                THEN \E t1 \in now..LastTime : \E t2 \in t1..LastTime :
                        /\ status' = "FILLED"
                        /\ completedAt' = t1
                        /\ updatedAt' = t2
                        /\ now' = t2
                ELSE \E t \in now..LastTime :
                        /\ status' = "PARTIALLY_FILLED"
                        /\ completedAt' = completedAt
                        /\ updatedAt' = t
                        /\ now' = t
             /\ Return(call)
             /\ UNCHANGED <<parameters, exchangeOrderId, createdAt, submittedAt,
                            rejectionReason>>

\* The cancel guard with only FILLED refused.
markCancelledRefusedFilledOnly(st) == st = "FILLED"

\* Order.markCancelled, the statuses in which it throws.
markCancelledRefused(st) ==
    st = "FILLED" \/ st = "REJECTED" \/ st = "CANCELLED"

\* Order.markCancelled()
markCancelled ==
    LET call == Call("markCancelled", Undefined, Undefined, NoFill) IN
    IF markCancelledRefused(status)
    THEN Throw(call, InvalidStateTransitionException)
    ELSE \E t1 \in now..LastTime : \E t2 \in t1..LastTime :
            /\ status' = "CANCELLED"
            /\ completedAt' = t1
            /\ updatedAt' = t2
            /\ now' = t2
            /\ Return(call)
            /\ UNCHANGED <<parameters, exchangeOrderId, fills, createdAt, submittedAt,
                           rejectionReason>>

\* The reject guard with every non-terminal status let through.
markRejectedRefusedTerminal(st) == isTerminal(st)

\* Order.markRejected, the statuses in which it throws.
markRejectedRefused(st) == st # "PENDING" /\ st # "SUBMITTED"

\* Order.markRejected(reason)
markRejected(reason) ==
    LET call == Call("markRejected", Undefined, reason, NoFill) IN
    IF markRejectedRefused(status)
    THEN Throw(call, InvalidStateTransitionException)
    ELSE \E t1 \in now..LastTime : \E t2 \in t1..LastTime :
            /\ status' = "REJECTED"
            /\ rejectionReason' = reason
            /\ completedAt' = t1
            /\ updatedAt' = t2
            /\ now' = t2
            /\ Return(call)
            /\ UNCHANGED <<parameters, exchangeOrderId, fills, createdAt, submittedAt>>

\* The fail guard left out.
markFailedNeverRefused(st) == FALSE

\* Order.markFailed, the status in which it throws.
markFailedRefused(st) == st = "FILLED"

\* Order.markFailed(reason)
markFailed(reason) ==
    LET call == Call("markFailed", Undefined, reason, NoFill) IN
    IF markFailedRefused(status)
    THEN Throw(call, InvalidStateTransitionException)
    ELSE \E t1 \in now..LastTime : \E t2 \in t1..LastTime :
            /\ status' = "FAILED"
            /\ rejectionReason' = reason
            /\ completedAt' = t1
            /\ updatedAt' = t2
            /\ now' = t2
            /\ Return(call)
            /\ UNCHANGED <<parameters, exchangeOrderId, fills, createdAt, submittedAt>>

\* What a caller does to the array the fills getter hands out.
ArrayMutations == {"pop", "clear"}

\* Array.prototype.pop / length = 0 on an array.
mutateArray(array, mutation) ==
    IF mutation = "pop"
    THEN IF array = << >> THEN array ELSE SubSeq(array, 1, Len(array) - 1)
    ELSE << >>

\* The getter handing out props.fills itself.
fillsGetterSharesList == TRUE

\* Order.fills getter: [...this.props.fills] is a new array, not props.fills.
fillsGetterReturnsOwnList == FALSE

\* order.fills read by a caller that then mutates the array it got.
fillsMutatedByCaller(mutation) ==
    LET call == Call(IF mutation = "pop" THEN "fills.pop" ELSE "fills.clear",
                     Undefined, Undefined, NoFill)
        returned == fills
    IN  /\ fills' = IF fillsGetterReturnsOwnList
                    THEN mutateArray(returned, mutation)
                    ELSE fills
        /\ Return(call)
        /\ UNCHANGED <<parameters, status, exchangeOrderId, createdAt, updatedAt,
                       submittedAt, completedAt, rejectionReason, now>>

Next ==
    \/ \E id \in ExchangeOrderIds : markSubmitted(id)
    \/ markOpen
    \/ \E fill \in FillSet : addFill(fill)
    \/ markCancelled
    \/ \E reason \in Reasons : markRejected(reason)
    \/ \E reason \in Reasons : markFailed(reason)
    \/ \E mutation \in ArrayMutations : fillsMutatedByCaller(mutation)

Spec == Init /\ [][Next]_vars

----------------------------------------------------------------------------
(* Order.reconstitute: an order made from props the caller supplies, in any *)
(* status and with any fills, on the props object the caller still holds.   *)

\* Longest props.fills the model follows; the array of the code has no limit.
MaxPropsFills == 3

\* Fills found in reconstituted props or pushed by their holder.
PropsFillSet ==
    [pair : {OrderPair}, exchangeOrderId : ExchangeOrderIds, executedQuantity : {1}]

\* OrderProps handed to Order.reconstitute: nothing relates the status, the
\* fills, the exchange order id and the timestamps to one another.
OrderPropsSet ==
    [parameters : [pair : {OrderPair}, type : {"MARKET", "STOP_LOSS"}, quantity : {2}],
     status : OrderStatus,
     exchangeOrderId : {Undefined, "EX-1"},
     fills : {<< >>} \cup {<<fill>> : fill \in PropsFillSet},
     createdAt : 1..LastTime,
     updatedAt : 1..LastTime,
     submittedAt : {NoTime, 1},
     completedAt : {NoTime, 1},
     rejectionReason : {Undefined, "timeout"}]

\* Order.reconstitute(props): new Order(props), nothing checked and every
\* field, createdAt and updatedAt included, the one of props.  The clock is
\* not read; the first value a later call reads from it is 1 or more.
reconstitute(props) ==
    /\ parameters = props.parameters
    /\ status = props.status
    /\ exchangeOrderId = props.exchangeOrderId
    /\ fills = props.fills
    /\ createdAt = props.createdAt
    /\ updatedAt = props.updatedAt
    /\ submittedAt = props.submittedAt
    /\ completedAt = props.completedAt
    /\ rejectionReason = props.rejectionReason
    /\ now = 1
    /\ lastCall = Call("reconstitute", Undefined, Undefined, NoFill)
    /\ lastError = NoError

InitReconstituted ==
    NoPositions /\ NoSnapshot /\ \E props \in OrderPropsSet : reconstitute(props)

\* The order holds the props object it was given, not a copy: the caller
\* assigning props.status changes the status of the order, whatever the
\* order holds.
propsStatusWrittenByCaller(st) ==
    /\ status' = st
    /\ Return(Call("props.status =", Undefined, Undefined, NoFill))
    /\ UNCHANGED <<parameters, exchangeOrderId, fills, createdAt, updatedAt,
                   submittedAt, completedAt, rejectionReason, now>>

\* The caller pushing onto props.fills appends to the fills of the order,
\* whatever the order holds.
propsFillsPushedByCaller(fill) ==
    /\ fills' = Append(fills, fill)
    /\ Return(Call("props.fills.push", Undefined, Undefined, fill))
    /\ UNCHANGED <<parameters, status, exchangeOrderId, createdAt, updatedAt,
                   submittedAt, completedAt, rejectionReason, now>>

\* The runs followed are those in which props.fills stays within
\* MaxPropsFills entries: a call that would make the array longer is not
\* followed further.
withinMaxPropsFills(longer) == Len(longer) <= MaxPropsFills

NextReconstituted ==
    \/ markSubmitted("EX-1")
    \/ markOpen
    \/ \E fill \in PropsFillSet : addFill(fill) /\ withinMaxPropsFills(fills')
    \/ markCancelled
    \/ markRejected("timeout")
    \/ markFailed("timeout")
    \/ \E st \in OrderStatus : propsStatusWrittenByCaller(st)
    \/ \E fill \in PropsFillSet :
          propsFillsPushedByCaller(fill) /\ withinMaxPropsFills(fills')

ReconstitutedSpec == InitReconstituted /\ [][NextReconstituted]_vars

----------------------------------------------------------------------------
(* The same order, created with a larger fractional quantity and filled in  *)
(* many small fills; one exchange order id, one pair and one reason keep    *)
(* the other dimensions small.                                              *)

FractionalParametersSet ==
    [pair : {OrderPair}, type : OrderType, quantity : 1..MaxFractionalQuantity]

FractionalFillSet ==
    [pair : {OrderPair}, exchangeOrderId : {"EX-1"},
     executedQuantity : 1..MaxFractionalQuantity]

InitFractional == NoPositions /\ NoSnapshot /\ \E p \in FractionalParametersSet : create(p)

NextFractional ==
    \/ markSubmitted("EX-1")
    \/ markOpen
    \/ \E fill \in FractionalFillSet : addFill(fill)
    \/ markCancelled
    \/ markRejected("timeout")
    \/ markFailed("timeout")

FractionalSpec == InitFractional /\ [][NextFractional]_vars

----------------------------------------------------------------------------
(* Position entities (src/domain/entities/position.entity.ts).  Prices and  *)
(* amounts are held by the JavaScript number their value accessor yields;   *)
(* sizes are whole units of the base asset.  The order of these             *)
(* specifications is a fresh one that no action touches.                    *)

\* Largest price level, in hundredths of the quote asset.
MaxPrice == 3
\* Largest position size, in whole units of the base asset.
MaxSize == 2
\* Largest fee, in hundredths of the quote asset.
MaxFee == 1

\* PositionSide enum.
PositionSide == {"LONG", "SHORT"}
\* PositionStatus enum.
PositionStatus == {"OPENING", "OPEN", "CLOSING", "CLOSED", "LIQUIDATED"}
\* The PositionExitReason the callers of the model pass.
ExitReasons == {"MANUAL_CLOSE"}

InvalidOperationException == "InvalidOperationException"
PositionValidationException == "PositionValidationException"

\* TradingPair.base / TradingPair.quote of the pairs of the model.
baseOf(pair) == IF pair = "BTC/USDT" THEN "BTC" ELSE "ETH"
quoteOf(pair) == "USDT"

\* Price.from(k / 100, pair) and Amount.from(k / 100, asset).
PriceFrom(k, pair) == [value |-> toNumber(k), pair |-> pair]
AmountFrom(k, asset) == [value |-> toNumber(k), asset |-> asset]

\* An optional Price / Amount / order id that is not set.
NoPrice == [value |-> toNumber(0), pair |-> Undefined]
NoAmount == [value |-> toNumber(0), asset |-> Undefined]

\* Prices handed to a position: every level of its pair, one of another pair.
PriceSet ==
    {PriceFrom(k, OrderPair) : k \in 1..MaxPrice} \cup {PriceFrom(1, "ETH/USDT")}
\* Sizes: whole units of the pair's base asset, one of another asset.
SizeSet ==
    {AmountFrom(100 * n, baseOf(OrderPair)) : n \in 1..MaxSize}
        \cup {AmountFrom(100, "ETH")}
\* Fees: in the quote asset, one in the base asset.
FeeSet ==
    {AmountFrom(k, quoteOf(OrderPair)) : k \in 0..MaxFee}
        \cup {AmountFrom(1, baseOf(OrderPair))}

\* Price.greaterThanOrEqual / lessThanOrEqual (on prices of one pair).
greaterThanOrEqual(a, b) == numberGE(a.value, b.value)
lessThanOrEqual(a, b) == numberGE(b.value, a.value)

\* Amount.isValidSize
isValidSize(amount) ==
    numberGE(amount.value, toNumber(0)) /\ amount.value # toNumber(0)

\* Amount.equals
amountEquals(a, b) == a.asset = b.asset /\ a.value = b.value

\* The order the position specifications leave alone.
IdleOrder ==
    /\ parameters = [pair |-> OrderPair, type |-> "MARKET", quantity |-> 1]
    /\ status = "PENDING"
    /\ exchangeOrderId = Undefined
    /\ fills = << >>
    /\ createdAt = 1
    /\ updatedAt = 1
    /\ submittedAt = NoTime
    /\ completedAt = NoTime
    /\ rejectionReason = Undefined

\* A call on a position: the method called.
PositionCall(op) == [op |-> op]

----------------------------------------------------------------------------
(* Position with intended and actual levels (position.entity.ts:69-689) *)

\* Intended sizes: one unit of the base asset, none, and one unit of another
\* asset (what is executed, not what was intended, drives a position).
IntendedSizeSet ==
    {AmountFrom(100, baseOf(OrderPair)), AmountFrom(0, baseOf(OrderPair)),
     AmountFrom(100, "ETH")}

\* Parameters of Position.open.
OpenParamsSet ==
    [tradingPair : {OrderPair}, side : PositionSide,
     intendedEntry : PriceSet, intendedStopLoss : PriceSet,
     intendedTakeProfit : PriceSet, intendedSize : IntendedSizeSet]

\* Position.open with the direction of the levels left unchecked.
openRefusedLevelsUnchecked(params) ==
    \/ params.intendedEntry.pair # params.tradingPair
    \/ params.intendedStopLoss.pair # params.tradingPair
    \/ params.intendedTakeProfit.pair # params.tradingPair
    \/ params.intendedSize.asset # baseOf(params.tradingPair)
    \/ ~isValidSize(params.intendedSize)

\* Position.open, the parameters on which it throws.
openRefused(params) ==
    \/ params.intendedEntry.pair # params.tradingPair
    \/ params.intendedStopLoss.pair # params.tradingPair
    \/ params.intendedTakeProfit.pair # params.tradingPair
    \/ params.intendedSize.asset # baseOf(params.tradingPair)
    \/ ~isValidSize(params.intendedSize)
    \/ IF params.side = "LONG"
       THEN \/ greaterThanOrEqual(params.intendedStopLoss, params.intendedEntry)
            \/ lessThanOrEqual(params.intendedTakeProfit, params.intendedEntry)
       ELSE \/ lessThanOrEqual(params.intendedStopLoss, params.intendedEntry)
            \/ greaterThanOrEqual(params.intendedTakeProfit, params.intendedEntry)

\* Position.open(params): the position it returns, or none when it throws.
open(params) ==
    /\ now = 1
    /\ lastCall = [op |-> "open", params |-> params]
    /\ IF openRefused(params)
       THEN /\ lastError = InvalidOperationException
            /\ richPosition = NoPosition
       ELSE /\ lastError = NoError
            /\ richPosition =
                 [tradingPair |-> params.tradingPair,
                  side |-> params.side,
                  intendedEntry |-> params.intendedEntry,
                  intendedStopLoss |-> params.intendedStopLoss,
                  intendedTakeProfit |-> params.intendedTakeProfit,
                  intendedSize |-> params.intendedSize,
                  actualEntryPrice |-> NoPrice,
                  actualExitPrice |-> NoPrice,
                  actualSize |-> NoAmount,
                  entryOrderId |-> Undefined,
                  stopLossOrderId |-> Undefined,
                  takeProfitOrderId |-> Undefined,
                  exitOrderId |-> Undefined,
                  status |-> "OPENING",
                  exitReason |-> Undefined,
                  realizedPnL |-> NoAmount,
                  fees |-> NoAmount,
                  createdAt |-> now,
                  openedAt |-> NoTime,
                  closedAt |-> NoTime]

InitRich ==
    /\ IdleOrder
    /\ NoSnapshot
    /\ simplePosition = NoPosition
    /\ \E params \in OpenParamsSet : open(params)

\* A call on the position that throws: nothing changes.
ThrowRich(call) ==
    /\ lastCall' = call
    /\ lastError' = InvalidOperationException
    /\ UNCHANGED <<orderProps, now, positions, bookVars>>

\* A call on the position that returns, leaving it as next.
ReturnRich(call, next) ==
    /\ lastCall' = call
    /\ lastError' = NoError
    /\ richPosition' = next
    /\ UNCHANGED <<orderProps, now, simplePosition, bookVars>>

\* The status guard left out.
assertStatusNeverFails(position, expected) == FALSE

\* Position.assertStatus: whether it throws.
assertStatusFails(position, expected) == position.status # expected

\* Order ids of the entry order and of the protective orders placed with it.
EntryOrderId == "entry-1"
StopLossOrderId == "sl-1"
TakeProfitOrderId == "tp-1"
\* Order id of the exit order, and of a replaced protective order.
ExitOrderId == "exit-1"
NewOrderId == "order-2"

\* Position.markAsOpened(params), openedAt left to new Date(): the calls on
\* a position all fall within one tick of the clock.
markAsOpened(actualEntryPrice, actualSize) ==
    LET call == PositionCall("markAsOpened") IN
    IF assertStatusFails(richPosition, "OPENING") THEN ThrowRich(call)
    ELSE IF actualEntryPrice.pair # richPosition.tradingPair THEN ThrowRich(call)
    ELSE IF actualSize.asset # baseOf(richPosition.tradingPair) THEN ThrowRich(call)
    ELSE ReturnRich(call,
             [richPosition EXCEPT !.actualEntryPrice = actualEntryPrice,
                                  !.actualSize = actualSize,
                                  !.entryOrderId = EntryOrderId,
                                  !.stopLossOrderId = StopLossOrderId,
                                  !.takeProfitOrderId = TakeProfitOrderId,
                                  !.status = "OPEN",
                                  !.openedAt = now])

\* Position.markAsClosing(exitOrderId)
markAsClosing(exitOrderId) ==
    LET call == PositionCall("markAsClosing") IN
    IF assertStatusFails(richPosition, "OPEN") THEN ThrowRich(call)
    ELSE ReturnRich(call, [richPosition EXCEPT !.exitOrderId = exitOrderId,
                                               !.status = "CLOSING"])

\* Position.isLong answering as if every position were LONG.
isLongWhateverSide(position) == position.side \in PositionSide

\* Position.isLong
isLong(position) == position.side = "LONG"

\* Price.subtract: an Amount in the quote asset.
priceSubtract(a, b) ==
    [value |-> numberSubtract(a.value, b.value), asset |-> quoteOf(a.pair)]

\* Amount.subtract (on amounts of one asset).
amountSubtract(a, b) ==
    [value |-> numberSubtract(a.value, b.value), asset |-> a.asset]

\* Position.calculateRealizedPnL(entry, exit, size)
calculateRealizedPnL(position, entry, exit, size) ==
    LET priceDiff == IF isLong(position)
                     THEN priceSubtract(exit, entry)
                     ELSE priceSubtract(entry, exit)
    IN  [value |-> numberTimes(priceDiff.value, size.value),
         asset |-> quoteOf(position.tradingPair)]

\* Position.markAsClosed, the statuses in which it throws.
markAsClosedRefused(st) == st # "CLOSING" /\ st # "OPEN"

\* Position.markAsClosed(params), closedAt left to new Date().
markAsClosed(actualExitPrice, actualSize, fees, exitReason) ==
    LET call == PositionCall("markAsClosed") IN
    IF markAsClosedRefused(richPosition.status) THEN ThrowRich(call)
    ELSE IF richPosition.actualEntryPrice = NoPrice \/ richPosition.actualSize = NoAmount
    THEN ThrowRich(call)
    ELSE IF actualExitPrice.pair # richPosition.tradingPair THEN ThrowRich(call)
    ELSE IF ~amountEquals(actualSize, richPosition.actualSize) THEN ThrowRich(call)
    ELSE IF fees.asset # quoteOf(richPosition.tradingPair) THEN ThrowRich(call)
    ELSE LET pnl == calculateRealizedPnL(richPosition, richPosition.actualEntryPrice,
                                         actualExitPrice, richPosition.actualSize)
         IN  ReturnRich(call,
                 [richPosition EXCEPT !.actualExitPrice = actualExitPrice,
                                      !.fees = fees,
                                      !.exitReason = exitReason,
                                      !.realizedPnL = amountSubtract(pnl, fees),
                                      !.status = "CLOSED",
                                      !.closedAt = now])

\* The entry price taken to be the one the position was planned with.
referenceEntryIntended(position) == position.intendedEntry

\* The entry price updateStopLoss / updateTakeProfit compare the level with.
referenceEntry(position) == position.actualEntryPrice

\* Position.updateStopLoss(newStopLoss, newOrderId)
updateStopLoss(newStopLoss, newOrderId) ==
    LET call == PositionCall("updateStopLoss") IN
    IF assertStatusFails(richPosition, "OPEN") THEN ThrowRich(call)
    ELSE IF newStopLoss.pair # richPosition.tradingPair THEN ThrowRich(call)
    ELSE IF richPosition.actualEntryPrice = NoPrice THEN ThrowRich(call)
    ELSE IF IF isLong(richPosition)
            THEN greaterThanOrEqual(newStopLoss, referenceEntry(richPosition))
            ELSE lessThanOrEqual(newStopLoss, referenceEntry(richPosition))
    THEN ThrowRich(call)
    ELSE ReturnRich(call, [richPosition EXCEPT !.intendedStopLoss = newStopLoss,
                                               !.stopLossOrderId = newOrderId])

\* Position.updateTakeProfit(newTakeProfit, newOrderId)
updateTakeProfit(newTakeProfit, newOrderId) ==
    LET call == PositionCall("updateTakeProfit") IN
    IF assertStatusFails(richPosition, "OPEN") THEN ThrowRich(call)
    ELSE IF newTakeProfit.pair # richPosition.tradingPair THEN ThrowRich(call)
    ELSE IF richPosition.actualEntryPrice = NoPrice THEN ThrowRich(call)
    ELSE IF IF isLong(richPosition)
            THEN lessThanOrEqual(newTakeProfit, referenceEntry(richPosition))
            ELSE greaterThanOrEqual(newTakeProfit, referenceEntry(richPosition))
    THEN ThrowRich(call)
    ELSE ReturnRich(call, [richPosition EXCEPT !.intendedTakeProfit = newTakeProfit,
                                               !.takeProfitOrderId = newOrderId])

\* Position.calculateUnrealizedPnL(currentPrice): the exception it throws,
\* or the Amount it returns.
calculateUnrealizedPnL(position, currentPrice) ==
    IF assertStatusFails(position, "OPEN")
    THEN [error |-> InvalidOperationException, amount |-> NoAmount]
    ELSE IF position.actualEntryPrice = NoPrice \/ position.actualSize = NoAmount
    THEN [error |-> InvalidOperationException, amount |-> NoAmount]
    ELSE IF currentPrice.pair # position.tradingPair
    THEN [error |-> InvalidOperationException, amount |-> NoAmount]
    ELSE [error |-> NoError,
          amount |-> calculateRealizedPnL(position, position.actualEntryPrice,
                                          currentPrice, position.actualSize)]

\* Parameters of markAsClosed: at most one of them of another pair or asset.
MarkAsClosedParamsSet ==
    {params \in [actualExitPrice : PriceSet, actualSize : SizeSet, fees : FeeSet,
                 exitReason : ExitReasons] :
        /\ ~(params.actualExitPrice.pair # OrderPair
               /\ params.actualSize.asset # baseOf(OrderPair))
        /\ ~(params.actualExitPrice.pair # OrderPair
               /\ params.fees.asset # quoteOf(OrderPair))
        /\ ~(params.actualSize.asset # baseOf(OrderPair)
               /\ params.fees.asset # quoteOf(OrderPair))}

\* The methods of a position that exists.
NextRich ==
    /\ richPosition # NoPosition
    /\ \/ \E price \in PriceSet, size \in SizeSet : markAsOpened(price, size)
       \/ markAsClosing(ExitOrderId)
       \/ \E params \in MarkAsClosedParamsSet :
             markAsClosed(params.actualExitPrice, params.actualSize, params.fees,
                          params.exitReason)
       \/ \E price \in PriceSet : updateStopLoss(price, NewOrderId)
       \/ \E price \in PriceSet : updateTakeProfit(price, NewOrderId)

RichSpec == InitRich /\ [][NextRich]_vars

----------------------------------------------------------------------------
(* Position with LIQUIDATED and metadata (position.entity.ts:749-1134).     *)
(* None of its methods looks at the pair or the asset of what it is given.  *)

\* Fee and exit quantity the callers of this position pass.
ZeroFee == AmountFrom(0, quoteOf(OrderPair))
OneUnit == AmountFrom(100, baseOf(OrderPair))

\* Levels attached as stop-loss / take-profit: one of the pair, one of
\* another pair.
AttachPriceSet == {PriceFrom(1, OrderPair), PriceFrom(1, "ETH/USDT")}

\* Metadata objects, as functions from keys to values.
NoMetadata == [key \in {} |-> "a"]
MetadataSet == {[key \in {"note"} |-> "a"], [key \in {"tag"} |-> "b"]}

\* { ...old, ...new }
spread(old, new) ==
    [key \in DOMAIN old \cup DOMAIN new |->
        IF key \in DOMAIN new THEN new[key] ELSE old[key]]

\* Position.create(pair, side, entryOrderId), without stop-loss, take-profit,
\* agent or strategy.
createPosition(pair, side, entryOrderId) ==
    /\ now = 1
    /\ lastCall = PositionCall("create")
    /\ lastError = NoError
    /\ simplePosition =
         [pair |-> pair,
          side |-> side,
          status |-> "OPENING",
          entryOrderId |-> entryOrderId,
          entryPrice |-> NoPrice,
          entryQuantity |-> NoAmount,
          entryFees |-> NoAmount,
          exitOrderId |-> Undefined,
          exitPrice |-> NoPrice,
          exitQuantity |-> NoAmount,
          exitFees |-> NoAmount,
          stopLossOrderId |-> Undefined,
          stopLossPrice |-> NoPrice,
          takeProfitOrderId |-> Undefined,
          takeProfitPrice |-> NoPrice,
          createdAt |-> now,
          openedAt |-> NoTime,
          closedAt |-> NoTime,
          updatedAt |-> now,
          metadata |-> NoMetadata]

InitSimple ==
    /\ IdleOrder
    /\ NoSnapshot
    /\ richPosition = NoPosition
    /\ \E side \in PositionSide : createPosition(OrderPair, side, EntryOrderId)

\* A call on the position that throws: nothing changes.
ThrowSimple(call, exception) ==
    /\ lastCall' = call
    /\ lastError' = exception
    /\ UNCHANGED <<orderProps, now, positions, bookVars>>

\* A call on the position that returns, leaving it as next; the calls on a
\* position all fall within one tick of the clock.
ReturnSimple(call, next) ==
    /\ lastCall' = call
    /\ lastError' = NoError
    /\ simplePosition' = next
    /\ UNCHANGED <<orderProps, now, richPosition, bookVars>>

\* Position.markOpened(entryPrice, entryQuantity, entryFees)
markOpened(entryPrice, entryQuantity, entryFees) ==
    LET call == PositionCall("markOpened") IN
    IF simplePosition.status # "OPENING"
    THEN ThrowSimple(call, InvalidStateTransitionException)
    ELSE ReturnSimple(call,
             [simplePosition EXCEPT !.entryPrice = entryPrice,
                                    !.entryQuantity = entryQuantity,
                                    !.entryFees = entryFees,
                                    !.status = "OPEN",
                                    !.openedAt = now,
                                    !.updatedAt = now])

\* Position.attachStopLoss(orderId, stopPrice)
attachStopLoss(orderId, stopPrice) ==
    LET call == PositionCall("attachStopLoss") IN
    IF simplePosition.status # "OPEN"
    THEN ThrowSimple(call, PositionValidationException)
    ELSE ReturnSimple(call,
             [simplePosition EXCEPT !.stopLossOrderId = orderId,
                                    !.stopLossPrice = stopPrice,
                                    !.updatedAt = now])

\* Position.attachTakeProfit(orderId, takeProfitPrice)
attachTakeProfit(orderId, takeProfitPrice) ==
    LET call == PositionCall("attachTakeProfit") IN
    IF simplePosition.status # "OPEN"
    THEN ThrowSimple(call, PositionValidationException)
    ELSE ReturnSimple(call,
             [simplePosition EXCEPT !.takeProfitOrderId = orderId,
                                    !.takeProfitPrice = takeProfitPrice,
                                    !.updatedAt = now])

\* Position.initiateClose(exitOrderId)
initiateClose(exitOrderId) ==
    LET call == PositionCall("initiateClose") IN
    IF simplePosition.status # "OPEN"
    THEN ThrowSimple(call, InvalidStateTransitionException)
    ELSE ReturnSimple(call,
             [simplePosition EXCEPT !.exitOrderId = exitOrderId,
                                    !.status = "CLOSING",
                                    !.updatedAt = now])

\* Position.markClosed(exitPrice, exitQuantity, exitFees)
markClosed(exitPrice, exitQuantity, exitFees) ==
    LET call == PositionCall("markClosed") IN
    IF simplePosition.status # "CLOSING"
    THEN ThrowSimple(call, InvalidStateTransitionException)
    ELSE ReturnSimple(call,
             [simplePosition EXCEPT !.exitPrice = exitPrice,
                                    !.exitQuantity = exitQuantity,
                                    !.exitFees = exitFees,
                                    !.status = "CLOSED",
                                    !.closedAt = now,
                                    !.updatedAt = now])

\* The liquidation guard with only CLOSED refused.
markLiquidatedRefusedClosedOnly(st) == st = "CLOSED"

\* Position.markLiquidated, the statuses in which it throws.
markLiquidatedRefused(st) == st # "OPEN" /\ st # "CLOSING"

\* Position.markLiquidated(exitPrice, exitQuantity, exitFees)
markLiquidated(exitPrice, exitQuantity, exitFees) ==
    LET call == PositionCall("markLiquidated") IN
    IF markLiquidatedRefused(simplePosition.status)
    THEN ThrowSimple(call, InvalidStateTransitionException)
    ELSE ReturnSimple(call,
             [simplePosition EXCEPT !.exitPrice = exitPrice,
                                    !.exitQuantity = exitQuantity,
                                    !.exitFees = exitFees,
                                    !.status = "LIQUIDATED",
                                    !.closedAt = now,
                                    !.updatedAt = now])

\* Position.updateMetadata(metadata)
updateMetadata(metadata) ==
    ReturnSimple(PositionCall("updateMetadata"),
        [simplePosition EXCEPT !.metadata = spread(simplePosition.metadata, metadata),
                               !.updatedAt = now])

\* Position.calculateUnrealizedPnL(currentPrice) of this position: whether
\* it returns an Amount, and the Amount.
simpleUnrealizedPnL(position, currentPrice) ==
    IF position.entryPrice = NoPrice \/ position.entryQuantity = NoAmount
    THEN [defined |-> FALSE, amount |-> NoAmount]
    ELSE IF position.status # "OPEN"
    THEN [defined |-> FALSE, amount |-> NoAmount]
    ELSE LET quantity == position.entryQuantity.value
             entryValue == numberTimes(position.entryPrice.value, quantity)
             currentValue == numberTimes(currentPrice.value, quantity)
             pnl == IF position.side = "LONG"
                    THEN numberSubtract(currentValue, entryValue)
                    ELSE numberSubtract(entryValue, currentValue)
         IN  [defined |-> TRUE,
              amount |-> [value |-> pnl, asset |-> quoteOf(position.pair)]]

NextSimple ==
    \/ \E price \in PriceSet, quantity \in SizeSet :
          markOpened(price, quantity, ZeroFee)
    \/ \E price \in AttachPriceSet : attachStopLoss(StopLossOrderId, price)
    \/ \E price \in AttachPriceSet : attachTakeProfit(TakeProfitOrderId, price)
    \/ initiateClose(ExitOrderId)
    \/ \E price \in PriceSet : markClosed(price, OneUnit, ZeroFee)
    \/ \E price \in PriceSet : markLiquidated(price, OneUnit, ZeroFee)
    \/ \E metadata \in MetadataSet : updateMetadata(metadata)

SimpleSpec == InitSimple /\ [][NextSimple]_vars

----------------------------------------------------------------------------
(* Position.reconstitute (position.entity.ts:777-779): a position made     *)
(* from props the caller supplies, in any status and with any fields set.  *)

\* PositionProps handed to Position.reconstitute: nothing relates the status
\* to the entry, the exit and the timestamps.
PositionPropsSet ==
    [pair : {OrderPair},
     side : PositionSide,
     status : PositionStatus,
     entryOrderId : {EntryOrderId},
     entryPrice : {NoPrice, PriceFrom(2, OrderPair)},
     entryQuantity : {NoAmount, OneUnit},
     entryFees : {NoAmount},
     exitOrderId : {Undefined},
     exitPrice : {NoPrice, PriceFrom(3, OrderPair)},
     exitQuantity : {NoAmount},
     exitFees : {NoAmount},
     stopLossOrderId : {Undefined},
     stopLossPrice : {NoPrice},
     takeProfitOrderId : {Undefined},
     takeProfitPrice : {NoPrice},
     createdAt : {1},
     openedAt : {NoTime, 1},
     closedAt : {NoTime, 1},
     updatedAt : {1},
     metadata : {NoMetadata}]

\* Position.reconstitute(props): new Position(props), nothing checked.
reconstitutePosition(props) ==
    /\ now = 1
    /\ lastCall = PositionCall("reconstitute")
    /\ lastError = NoError
    /\ simplePosition = props

InitReconstitutedPosition ==
    /\ IdleOrder
    /\ NoSnapshot
    /\ richPosition = NoPosition
    /\ \E props \in PositionPropsSet : reconstitutePosition(props)

\* The position holds the props object it was given, not a copy: the caller
\* assigning props.status changes the status of the position.
positionPropsStatusWrittenByCaller(st) ==
    ReturnSimple(PositionCall("props.status ="),
                 [simplePosition EXCEPT !.status = st])

NextReconstitutedPosition ==
    \/ markOpened(PriceFrom(2, OrderPair), OneUnit, ZeroFee)
    \/ attachStopLoss(StopLossOrderId, PriceFrom(1, OrderPair))
    \/ attachTakeProfit(TakeProfitOrderId, PriceFrom(1, OrderPair))
    \/ initiateClose(ExitOrderId)
    \/ markClosed(PriceFrom(3, OrderPair), OneUnit, ZeroFee)
    \/ markLiquidated(PriceFrom(3, OrderPair), OneUnit, ZeroFee)
    \/ \E metadata \in MetadataSet : updateMetadata(metadata)
    \/ \E st \in PositionStatus : positionPropsStatusWrittenByCaller(st)

ReconstitutedPositionSpec ==
    InitReconstitutedPosition /\ [][NextReconstitutedPosition]_vars

----------------------------------------------------------------------------
(* Order book snapshot (OrderBookSnapshotVo, OrderBookLevel).  Prices and   *)
(* quantities of this book are whole numbers, held as integers: the sums    *)
(* and products of the liquidity queries are exact in JavaScript numbers,   *)
(* and their quotient is held as a fraction in lowest terms.  The           *)
(* simulated market orders run on JavaScript numbers.                       *)

\* Longest ladder handed to OrderBookSnapshotVo.from.
MaxLevels == 3
\* Largest size of a simulated market order, in whole units of the base asset.
MaxOrderSize == 5

InvalidValueObjectException == "InvalidValueObjectException"

\* OrderBookLevel.from(Price.from(price, pair), Amount.from(quantity, base)),
\* for a quantity > 0.
Level(price, quantity) == [price |-> price, quantity |-> quantity]

\* Levels a caller offers as bids / as asks: the levels of a book around
\* 50000, and two cheap levels of equal value.
BidLevelSet == {Level(49800, 2), Level(49900, 1), Level(50100, 1), Level(1, 2)}
AskLevelSet == {Level(50100, 1), Level(50200, 2), Level(50300, 3), Level(2, 1)}

\* Arrays of at most MaxLevels different levels, in any order.
RECURSIVE ArraysOf(_, _)
ArraysOf(levels, n) ==
    IF n = 0 THEN {<< >>}
    ELSE LET shorter == ArraysOf(levels, n - 1)
         IN  shorter \cup
             {Append(a, l) : a \in {b \in shorter : Len(b) = n - 1},
                             l \in levels}
DistinctLevels(array) ==
    \A i, j \in 1..Len(array) : i # j => array[i] # array[j]
LadderInputs(levels) == {a \in ArraysOf(levels, MaxLevels) : DistinctLevels(a)}

\* Sizes of a simulated market order: Amounts of 0..MaxOrderSize units of
\* the base asset, and one unit of another asset.
OrderSizeSet ==
    {AmountFrom(100 * n, baseOf(OrderPair)) : n \in 0..MaxOrderSize}
        \cup {AmountFrom(100, "ETH")}

\* The optional argument `levels` of the liquidity queries.
NoLevels == [given |-> FALSE, levels |-> 0]
LevelsArgSet ==
    {NoLevels} \cup {[given |-> TRUE, levels |-> n] : n \in 0..(MaxLevels + 1)}

\* Array.prototype.sort with a comparator on the price is a stable sort:
\* insert(sorted, level, before) puts level after every element it must not
\* precede.
RECURSIVE insertLevel(_, _, _)
insertLevel(sorted, level, descending) ==
    IF sorted = << >> THEN <<level>>
    ELSE LET last == sorted[Len(sorted)]
             comesAfterLast ==
                 IF descending THEN level.price <= last.price
                 ELSE level.price >= last.price
         IN  IF comesAfterLast THEN Append(sorted, level)
             ELSE Append(insertLevel(SubSeq(sorted, 1, Len(sorted) - 1),
                                     level, descending), last)

\* [...levels].sort((a, b) => b.price - a.price), or a.price - b.price.
RECURSIVE sortLevels(_, _)
sortLevels(levels, descending) ==
    IF levels = << >> THEN << >>
    ELSE insertLevel(sortLevels(SubSeq(levels, 1, Len(levels) - 1), descending),
                     levels[Len(levels)], descending)

\* The sort applied to the caller's array itself.
fromSortsInPlace == TRUE

\* OrderBookSnapshotVo.from sorts [...bids] and [...asks], new arrays.
fromSortsCallerArrays == FALSE

\* The crossed-book test with a touching book let through.
crossedStrictly(bestBid, bestAsk) == bestBid > bestAsk

\* bestBid.greaterThanOrEqual(bestAsk)
crossed(bestBid, bestAsk) == bestBid >= bestAsk

\* OrderBookSnapshotVo.from, the inputs on which it throws.
fromRefused(bids, asks) ==
    \/ Len(bids) = 0
    \/ Len(asks) = 0
    \/ crossed(sortLevels(bids, TRUE)[1].price, sortLevels(asks, FALSE)[1].price)

\* OrderBookSnapshotVo.from(pair, bids, asks, timestamp): the snapshot it
\* returns, or none when it throws.
from(pair, bids, asks) ==
    LET sortedBids == sortLevels(bids, TRUE)
        sortedAsks == sortLevels(asks, FALSE)
    IN  /\ now = 1
        /\ lastCall = [op |-> "from", bids |-> bids, asks |-> asks]
        /\ lastResult = NoResult
        /\ callerArrays =
             IF fromSortsCallerArrays
             THEN [bids |-> sortedBids, asks |-> sortedAsks]
             ELSE [bids |-> bids, asks |-> asks]
        /\ IF fromRefused(bids, asks)
           THEN /\ lastError = InvalidValueObjectException
                /\ orderBook = NoOrderBook
           ELSE /\ lastError = NoError
                /\ orderBook = [pair |-> pair, bids |-> sortedBids,
                                asks |-> sortedAsks]

InitBook ==
    /\ IdleOrder
    /\ NoPositions
    /\ \E bids \in LadderInputs(BidLevelSet), asks \in LadderInputs(AskLevelSet) :
          from(OrderPair, bids, asks)

\* Math.min
numberMin(a, b) == IF a <= b THEN a ELSE b

\* OrderBookLevel.getTotalValue: price.convertToQuote(quantity).value
getTotalValue(level) == level.quantity * level.price

\* array.slice(0, n), n >= 0
slice(array, n) == SubSeq(array, 1, numberMin(n, Len(array)))

\* `levels ? ladder.slice(0, levels) : ladder`: 0 is falsy, as undefined is.
levelsToSum(ladder, arg) ==
    IF arg.given /\ arg.levels # 0 THEN slice(ladder, arg.levels) ELSE ladder

\* The loop of getBidLiquidity / getAskLiquidity: total += value of the level.
RECURSIVE sumTotalValue(_)
sumTotalValue(ladder) ==
    IF ladder = << >> THEN 0
    ELSE sumTotalValue(SubSeq(ladder, 1, Len(ladder) - 1))
             + getTotalValue(ladder[Len(ladder)])

\* OrderBookSnapshotVo.getBidLiquidity(levels) / getAskLiquidity(levels)
getBidLiquidity(book, arg) ==
    [value |-> sumTotalValue(levelsToSum(book.bids, arg)), asset |-> quoteOf(book.pair)]
getAskLiquidity(book, arg) ==
    [value |-> sumTotalValue(levelsToSum(book.asks, arg)), asset |-> quoteOf(book.pair)]

\* bidLiq.value / askLiq.value, for askLiq > 0.
imbalanceOf(bidLiq, askLiq) ==
    [sign |-> 1, ratio |-> numberDivide(bidLiq, askLiq)]

\* OrderBookSnapshotVo.getLiquidityImbalance(levels); the ask liquidity of a
\* snapshot is never zero.
getLiquidityImbalance(book, arg) ==
    imbalanceOf(getBidLiquidity(book, arg).value, getAskLiquidity(book, arg).value)

\* The OrderBookLevel objects a ladder of whole numbers stands for:
\* OrderBookLevel.from(Price.from(price, pair), Amount.from(quantity, base)).
levelsOf(ladder, pair) ==
    [i \in 1..Len(ladder) |->
        [price |-> PriceFrom(100 * ladder[i].price, pair),
         quantity |-> AmountFrom(100 * ladder[i].quantity, baseOf(pair))]]

\* The snapshot of Prices and Amounts a book of whole numbers stands for.
snapshotOf(book) ==
    [pair |-> book.pair, bids |-> levelsOf(book.bids, book.pair),
     asks |-> levelsOf(book.asks, book.pair)]

\* Math.min(remaining, availableQty), on JavaScript numbers.
fillQty(remaining, availableQty) ==
    IF numberGE(availableQty, remaining) THEN remaining ELSE availableQty

\* The loop of estimateMarketBuy / estimateMarketSell from level i on, on
\* JavaScript numbers: totalCost += fillQty * level.getPrice().value (the
\* prices of the levels are whole numbers), filled += fillQty,
\* remaining -= fillQty, and the loop is left once remaining <= 0.
RECURSIVE walkFrom(_, _, _)
walkFrom(ladder, i, acc) ==
    IF i > Len(ladder) THEN acc
    ELSE LET availableQty == ladder[i].quantity.value
             qty == fillQty(acc.remaining, availableQty)
             next == [total |-> numberAdd(acc.total,
                                          numberTimes(qty, ladder[i].price.value)),
                      filled |-> numberAdd(acc.filled, qty),
                      remaining |-> numberSubtract(acc.remaining, qty)]
         IN  IF ~numberGT(next.remaining, toNumber(0)) THEN next
             ELSE walkFrom(ladder, i + 1, next)

\* let remaining = size.value; let totalCost = 0; let filled = 0; the loop.
walk(ladder, size) ==
    walkFrom(ladder, 1, [total |-> toNumber(0), filled |-> toNumber(0),
                         remaining |-> size.value])

\* d / q on JavaScript numbers, for d > 0 and q > 0 standing for the
\* decimals kd and kq hundredths: the double num / den + eps / (den^2 * 2^59).
\* The real d / q is kd / kq + (n / (1 + t)) / (kq^2 * 2^59) with
\* n = kq * d.eps - kd * q.eps and t = q.eps / (kq * 2^59); the quotient of
\* two decimals held exactly is taken in lowest terms.
numberQuotient(d, q) ==
    LET kd == d.hundredths
        kq == q.hundredths
        n  == kq * d.eps - kd * q.eps
        g  == IF n = 0 THEN gcd(kd, kq) ELSE 1
        a  == kd \div g
        b  == kq \div g
    IN  [num |-> a, den |-> b,
         eps |-> roundQuotient(a, b, n, 0 - (sign(n) * sign(q.eps)))]

----------------------------------------------------------------------------
(* Whole numbers of more than 31 bits, held by their digits in base 1024,   *)
(* least significant first and without leading zeros (0 is << >>).          *)

RECURSIVE bigOf(_)
bigOf(n) == IF n = 0 THEN << >> ELSE <<n % 1024>> \o bigOf(n \div 1024)

RECURSIVE bigTrim(_)
bigTrim(x) ==
    IF x = << >> THEN x
    ELSE IF x[Len(x)] = 0 THEN bigTrim(SubSeq(x, 1, Len(x) - 1))
    ELSE x

\* x * m + carry, for a small m.
RECURSIVE bigTimes(_, _, _)
bigTimes(x, m, carry) ==
    IF x = << >> THEN bigOf(carry)
    ELSE LET v == x[1] * m + carry
         IN  <<v % 1024>> \o bigTimes(Tail(x), m, v \div 1024)

\* x + y + carry
RECURSIVE bigAdd(_, _, _)
bigAdd(x, y, carry) ==
    IF x = << >> /\ y = << >> THEN bigOf(carry)
    ELSE LET v == (IF x = << >> THEN 0 ELSE x[1])
                    + (IF y = << >> THEN 0 ELSE y[1]) + carry
         IN  <<v % 1024>> \o bigAdd(IF x = << >> THEN x ELSE Tail(x),
                                    IF y = << >> THEN y ELSE Tail(y),
                                    v \div 1024)

\* x - y - borrow, for x >= y + borrow (leading zeros are left in).
RECURSIVE bigSubtractFrom(_, _, _)
bigSubtractFrom(x, y, borrow) ==
    IF x = << >> THEN << >>
    ELSE LET v == x[1] - (IF y = << >> THEN 0 ELSE y[1]) - borrow
         IN  <<(v + 1024) % 1024>>
                 \o bigSubtractFrom(Tail(x), IF y = << >> THEN y ELSE Tail(y),
                                    IF v < 0 THEN 1 ELSE 0)

bigSubtract(x, y) == bigTrim(bigSubtractFrom(x, y, 0))

\* x < y
RECURSIVE bigLess(_, _)
bigLess(x, y) ==
    IF Len(x) # Len(y) THEN Len(x) < Len(y)
    ELSE IF x = << >> THEN FALSE
    ELSE IF x[Len(x)] # y[Len(y)] THEN x[Len(x)] < y[Len(y)]
    ELSE bigLess(SubSeq(x, 1, Len(x) - 1), SubSeq(y, 1, Len(y) - 1))

\* Quotient (leading zeros left in) and remainder of (rest * 1024^Len(x) + x)
\* by m, for m below 2^21 and rest < m.
RECURSIVE bigDivideFrom(_, _, _)
bigDivideFrom(x, m, rest) ==
    IF x = << >> THEN [quotient |-> << >>, remainder |-> rest]
    ELSE LET v == rest * 1024 + x[Len(x)]
             lower == bigDivideFrom(SubSeq(x, 1, Len(x) - 1), m, v % m)
         IN  [quotient |-> Append(lower.quotient, v \div m),
              remainder |-> lower.remainder]

\* Quotient and remainder of x by m, for m below 2^21.
bigDivide(x, m) ==
    LET division == bigDivideFrom(x, m, 0)
    IN  [quotient |-> bigTrim(division.quotient), remainder |-> division.remainder]

\* x * 2^bits and x \div 2^bits
bigShiftLeft(x, bits) ==
    IF x = << >> THEN x
    ELSE [i \in 1..(bits \div 10) |-> 0] \o bigTimes(x, pow2(bits % 10), 0)
bigShiftRight(x, bits) ==
    bigDivide(SubSeq(x, (bits \div 10) + 1, Len(x)), pow2(bits % 10)).quotient

\* The number of binary digits of a whole number.
RECURSIVE bitLength(_)
bitLength(n) == IF n = 0 THEN 0 ELSE 1 + bitLength(n \div 2)
bigBitLength(x) ==
    IF x = << >> THEN 0 ELSE 10 * (Len(x) - 1) + bitLength(x[Len(x)])

\* The magnitude of a whole number.
abs(n) == IF n < 0 THEN 0 - n ELSE n

\* |high * 2^59 + low|, for |low| < 2^59.
bigMagnitude(high, low) ==
    IF sign(high) * sign(low) >= 0
    THEN bigAdd(bigShiftLeft(bigOf(abs(high)), 59), bigOf(abs(low)), 0)
    ELSE bigSubtract(bigShiftLeft(bigOf(abs(high)), 59), bigOf(abs(low)))

----------------------------------------------------------------------------
(* JavaScript numbers beyond the reach of [hundredths, eps]: the double     *)
(* mantissa * 2^exponent, negated when `negative`, its mantissa a whole     *)
(* number below 2^53 (2^53 itself once a rounding carries) held by its      *)
(* digits.                                                                  *)

bigZero == [negative |-> FALSE, mantissa |-> << >>, exponent |-> 0]

\* Round-to-nearest, ties-to-even, of a positive real of more than 54
\* binary digits, the last of them of weight 2^exponent, followed by more
\* digits when `sticky`: `kept` holds its leading 53 digits, `low` the
\* digits dropped and `half` one half in the last place kept.
roundKept(negative, kept, low, half, sticky, exponent) ==
    [negative |-> negative,
     mantissa |-> IF \/ bigLess(half, low)
                     \/ low = half /\ (sticky \/ kept[1] % 2 = 1)
                  THEN bigAdd(kept, <<1>>, 0) ELSE kept,
     exponent |-> exponent]

\* The same, for the leading digits of `quotient` left of the last `drop`.
roundDropped(negative, quotient, kept, drop, sticky, exponent) ==
    roundKept(negative, kept, bigSubtract(quotient, bigShiftLeft(kept, drop)),
              bigShiftLeft(<<1>>, drop - 1), sticky, exponent + drop)

\* The same, for a quotient and the digits to drop from it.
roundTo53(negative, quotient, drop, sticky, exponent) ==
    roundDropped(negative, quotient, bigShiftRight(quotient, drop), drop, sticky,
                 exponent)

\* The same, for the outcome of a division.
roundDivision(negative, division, exponent) ==
    roundTo53(negative, division.quotient, bigBitLength(division.quotient) - 53,
              division.remainder # 0, exponent)

\* The same, for x * 2^guard divided by m.
nearestShifted(negative, x, m, exponent, guard) ==
    roundDivision(negative, bigDivide(bigShiftLeft(x, guard), m), exponent - guard)

\* The double nearest to the real x * 2^exponent / m (negated when
\* `negative`), for a whole number x and a whole number m below 2^21: x is
\* shifted so that the quotient has 55 binary digits or more.
nearestDouble(negative, x, m, exponent) ==
    IF x = << >> THEN bigZero
    ELSE nearestShifted(negative, x, m, exponent,
                        IF 55 + bitLength(m) > bigBitLength(x)
                        THEN 55 + bitLength(m) - bigBitLength(x) ELSE 0)

\* The same double with an odd mantissa.
RECURSIVE oddMantissa(_)
oddMantissa(x) ==
    IF x.mantissa = << >> THEN bigZero
    ELSE IF x.mantissa[1] % 2 = 1 THEN x
    ELSE oddMantissa([negative |-> x.negative,
                      mantissa |-> bigShiftRight(x.mantissa, 1),
                      exponent |-> x.exponent + 1])

\* x / m and x * n on these doubles, for whole numbers m and n.
bigOver(x, m) == nearestDouble(x.negative, x.mantissa, m, x.exponent)
bigScaled(x, n) == nearestDouble(x.negative, bigTimes(x.mantissa, n, 0), 1, x.exponent)

\* x - y on JavaScript numbers (y - x when `reversed`), for x the double
\* x.num / x.den + x.eps / (x.den^2 * 2^59) and y a whole number: the real
\* x - y is ((x.num - y * x.den) * x.den * 2^59 + x.eps) / (x.den^2 * 2^59).
bigDifference(x, y, reversed) ==
    nearestDouble((2 * sign(x.num - y * x.den) + sign(x.eps) < 0) # reversed,
                  bigMagnitude((x.num - y * x.den) * x.den, x.eps),
                  x.den * x.den, 0 - 59)

----------------------------------------------------------------------------
(* OrderBookSnapshotVo.estimateMarketBuy / estimateMarketSell *)

\* ((averagePrice.value - bestAsk.value) / bestAsk.value) * 100 for a buy,
\* ((bestBid.value - averagePrice.value) / bestBid.value) * 100 for a sell,
\* on JavaScript numbers: three roundings.  The best price is a whole number.
slippage(averagePrice, best, buying) ==
    oddMantissa(bigScaled(bigOver(bigDifference(averagePrice, best, ~buying), best),
                          100))

\* What an estimate throws: InvalidValueObjectException with its message
\* and its context.
estimateThrows(message, context) ==
    [error |-> InvalidValueObjectException, message |-> message, context |-> context]

\* What an estimate returns: { averagePrice, totalCost, slippagePercent } of
\* a buy, { averagePrice, totalRevenue, slippagePercent } of a sell.
estimateReturns(averagePrice, total, slippagePercent, pair, buying) ==
    IF buying
    THEN [error |-> NoError,
          averagePrice |-> [value |-> averagePrice, pair |-> pair],
          totalCost |-> [value |-> total, asset |-> quoteOf(pair)],
          slippagePercent |-> slippagePercent]
    ELSE [error |-> NoError,
          averagePrice |-> [value |-> averagePrice, pair |-> pair],
          totalRevenue |-> [value |-> total, asset |-> quoteOf(pair)],
          slippagePercent |-> slippagePercent]

\* estimateMarketBuy / estimateMarketSell once the loop has ended with the
\* totals w, the best price being that of the first level: the exception
\* thrown, or the object returned.  0 / 0 is NaN, which Price.from refuses.
estimateAfter(w, best, size, pair, buying) ==
    IF numberGT(w.remaining, toNumber(0))
    THEN estimateThrows("Insufficient liquidity for order",
                        [requested |-> size.value, available |-> w.filled])
    ELSE IF w.filled = toNumber(0)
    THEN estimateThrows("Value must be a finite number", "NaN")
    ELSE estimateReturns(numberQuotient(w.total, w.filled), w.total,
                         slippage(numberQuotient(w.total, w.filled), best, buying),
                         pair, buying)

\* The body shared by estimateMarketBuy and estimateMarketSell on the
\* opposing ladder of a snapshot; `buying` tells the side.
estimate(ladder, size, pair, buying) ==
    IF size.asset # baseOf(pair)
    THEN estimateThrows("Size must be in base asset",
                        [expected |-> baseOf(pair), actual |-> size.asset])
    ELSE estimateAfter(walk(ladder, size), ladder[1].price.value.hundredths \div 100,
                       size, pair, buying)

\* OrderBookSnapshotVo.estimateMarketBuy(size)
estimateMarketBuy(book, size) == estimate(book.asks, size, book.pair, TRUE)

\* OrderBookSnapshotVo.estimateMarketSell(size)
estimateMarketSell(book, size) == estimate(book.bids, size, book.pair, FALSE)

\* A query of the snapshot: the snapshot and everything else stay as they are.
Query(call, result) ==
    /\ orderBook # NoOrderBook
    /\ lastCall' = call
    /\ lastResult' = result
    /\ lastError' = IF "error" \in DOMAIN result THEN result.error ELSE NoError
    /\ UNCHANGED <<orderProps, now, positions, orderBook, callerArrays>>

NextBook ==
    \/ \E size \in OrderSizeSet :
          Query([op |-> "estimateMarketBuy", size |-> size],
                estimateMarketBuy(snapshotOf(orderBook), size))
    \/ \E size \in OrderSizeSet :
          Query([op |-> "estimateMarketSell", size |-> size],
                estimateMarketSell(snapshotOf(orderBook), size))
    \/ \E arg \in LevelsArgSet :
          Query([op |-> "getBidLiquidity", levels |-> arg],
                getBidLiquidity(orderBook, arg))
    \/ \E arg \in LevelsArgSet :
          Query([op |-> "getAskLiquidity", levels |-> arg],
                getAskLiquidity(orderBook, arg))
    \/ \E arg \in LevelsArgSet :
          Query([op |-> "getLiquidityImbalance", levels |-> arg],
                getLiquidityImbalance(orderBook, arg))

BookSpec == InitBook /\ [][NextBook]_vars

----------------------------------------------------------------------------
(* Value objects: Amount, Price, Percentage and Fill, as pure functions of  *)
(* their operands.  A call either throws or returns a value.                *)

\* Largest magnitude of an operand, in hundredths.
MaxValue == 3

\* What a call hands back: nothing when it throws, else an object or a
\* boolean (held as a record, as the objects are).
Raised(exception) == [error |-> exception, value |-> [thrown |-> TRUE]]
Returned(value) == [error |-> NoError, value |-> value]
ReturnedBoolean(b) == [error |-> NoError, value |-> [boolean |-> b]]

\* Amounts handed to the operations of Amount: of either asset, zero included.
ValueAmountSet ==
    {AmountFrom(k, asset) : k \in 0..MaxValue, asset \in {"BTC", "ETH"}}
\* Prices handed to the operations of Price: of either pair, small ones and
\* whole ones.
ValuePriceSet ==
    {PriceFrom(k, pair) : k \in (1..MaxValue) \cup {100, 150, 200}, pair \in Pairs}

\* The guard left out: operands of different assets go through.
assertSameAssetNeverFails(a, b) == FALSE

\* Amount.assertSameAsset: whether it throws.
assertSameAssetFails(a, b) == a.asset # b.asset

\* Price.assertSamePair: whether it throws.
assertSamePairFails(p, q) == p.pair # q.pair

\* The operations of Amount on two Amounts.
AmountOperations ==
    {"add", "subtract", "subtractOrZero", "greaterThan", "greaterThanOrEqual",
     "lessThan", "lessThanOrEqual", "equals"}

\* a.op(b) for the operations of Amount that take an Amount.
amountOperation(op, a, b) ==
    IF op = "equals" THEN ReturnedBoolean(amountEquals(a, b))
    ELSE IF assertSameAssetFails(a, b) THEN Raised(InvalidValueObjectException)
    ELSE CASE op = "add" ->
                Returned([value |-> numberAdd(a.value, b.value), asset |-> a.asset])
           [] op = "subtract" -> Returned(amountSubtract(a, b))
           [] op = "subtractOrZero" ->
                LET result == numberSubtract(a.value, b.value)
                IN  Returned([value |-> IF numberGE(result, toNumber(0))
                                        THEN result ELSE toNumber(0),
                              asset |-> a.asset])
           [] op = "greaterThan" -> ReturnedBoolean(numberGT(a.value, b.value))
           [] op = "greaterThanOrEqual" -> ReturnedBoolean(numberGE(a.value, b.value))
           [] op = "lessThan" -> ReturnedBoolean(numberGT(b.value, a.value))
           [] op = "lessThanOrEqual" -> ReturnedBoolean(numberGE(b.value, a.value))

\* Percentage.from(value, options) for the value num / den percent, held as
\* a fraction in lowest terms.
percentageFrom(num, den, allowAbove100) ==
    IF num < (0 - 100) * den THEN Raised(InvalidValueObjectException)
    ELSE IF ~allowAbove100 /\ num > 100 * den THEN Raised(InvalidValueObjectException)
    ELSE Returned([percent |-> numberDivide(num, den)])

\* (d / q) * 100 on JavaScript numbers, for d > 0 and q > 0 standing for
\* the decimals kd and kq hundredths: two roundings.  The real d / q is
\* kd / kq + (n / (1 + t)) / (kq^2 * 2^59) with n = kq * d.eps - kd * q.eps
\* and t = q.eps / (kq * 2^59): it lies off (kd, kq, n) by less than one
\* unit, on the side of kd / kq when q.eps > 0 and on the other side when
\* q.eps < 0.  The result is the double num / den + eps / (den^2 * 2^59).
quotientTimes100(d, q) ==
    LET kd == d.hundredths
        kq == q.hundredths
        n  == kq * d.eps - kd * q.eps
        ratio == roundQuotient(kd, kq, n, 0 - (sign(n) * sign(q.eps)))
    IN  [num |-> 100 * kd, den |-> kq,
         eps |-> roundQuotient(100 * kd, kq, 100 * ratio, 0)]

\* Price.percentageChangeFrom(oldPrice), same pair: ((this.value -
\* oldPrice.value) / oldPrice.value) * 100 on JavaScript numbers, handed to
\* Percentage.from with allowAbove100 (which throws below -100).  The
\* Percentage holds the double percent + eps / 2^59, both fractions in
\* lowest terms.
percentageChangeFrom(p, oldPrice) ==
    LET diff == numberSubtract(p.value, oldPrice.value)
        size == IF diff.hundredths < 0 THEN numberNegate(diff) ELSE diff
        change == quotientTimes100(size, oldPrice.value)
    IN  IF diff.hundredths = 0
        THEN Returned([percent |-> numberDivide(0, 1), eps |-> numberDivide(0, 1)])
        ELSE IF diff.hundredths < 0
        THEN IF \/ change.num > 100 * change.den
                \/ change.num = 100 * change.den /\ change.eps > 0
             THEN Raised(InvalidValueObjectException)
             ELSE Returned([percent |-> numberDivide(0 - change.num, change.den),
                            eps |-> numberDivide(0 - change.eps,
                                                 change.den * change.den)])
        ELSE Returned([percent |-> numberDivide(change.num, change.den),
                       eps |-> numberDivide(change.eps, change.den * change.den)])

\* The operations of Price on two Prices (isBetween: on three).
PriceOperations ==
    {"subtract", "absoluteDifference", "percentageChangeTo", "percentageChangeFrom",
     "greaterThan", "greaterThanOrEqual", "lessThan", "lessThanOrEqual",
     "equals", "isBetween", "min", "max"}

\* p.op(q), and p.isBetween(q, r), for the operations of Price that take
\* Prices.  The percentage changes are (q - p) / p * 100 and
\* (p - q) / q * 100.
priceOperation(op, p, q, r) ==
    IF op = "equals" THEN ReturnedBoolean(p.pair = q.pair /\ p.value = q.value)
    ELSE IF assertSamePairFails(p, q) THEN Raised(InvalidValueObjectException)
    ELSE CASE op = "subtract" -> Returned(priceSubtract(p, q))
           [] op = "absoluteDifference" ->
                LET diff == numberSubtract(p.value, q.value)
                IN  Returned([value |-> IF numberGE(diff, toNumber(0)) THEN diff
                                        ELSE numberNegate(diff),
                              asset |-> quoteOf(p.pair)])
           [] op = "percentageChangeTo" ->
                percentageFrom(100 * (q.value.hundredths - p.value.hundredths),
                               p.value.hundredths, FALSE)
           [] op = "percentageChangeFrom" -> percentageChangeFrom(p, q)
           [] op = "greaterThan" -> ReturnedBoolean(numberGT(p.value, q.value))
           [] op = "greaterThanOrEqual" -> ReturnedBoolean(numberGE(p.value, q.value))
           [] op = "lessThan" -> ReturnedBoolean(numberGT(q.value, p.value))
           [] op = "lessThanOrEqual" -> ReturnedBoolean(numberGE(q.value, p.value))
           [] op = "isBetween" ->
                IF assertSamePairFails(p, r) THEN Raised(InvalidValueObjectException)
                ELSE ReturnedBoolean(numberGE(p.value, q.value) /\ numberGE(r.value, p.value))
           [] op = "min" -> Returned(IF numberGE(q.value, p.value) THEN p ELSE q)
           [] op = "max" -> Returned(IF numberGE(p.value, q.value) THEN p ELSE q)

\* Price.from(value, pair) for a finite number: it throws unless the value
\* is strictly positive.
priceFromNumber(value, pair) ==
    IF ~numberGT(value, toNumber(0)) THEN Raised(InvalidValueObjectException)
    ELSE Returned([value |-> value, pair |-> pair])

\* Math.round, Math.floor and Math.ceil of a JavaScript number; the
\* representation error is far below one hundredth.
mathRound(x) ==
    IF x.eps >= 0 THEN (x.hundredths + 50) \div 100 ELSE (x.hundredths + 49) \div 100
mathFloor(x) ==
    IF x.eps >= 0 THEN x.hundredths \div 100 ELSE (x.hundredths - 1) \div 100
mathCeil(x) ==
    IF x.eps > 0 THEN (x.hundredths \div 100) + 1 ELSE (x.hundredths + 99) \div 100

\* The checked result of multiplyBy, divideBy and addTicks: the operation
\* throws when the new value is not positive, else hands it to Price.from.
positiveOrThrow(newValue, pair) ==
    IF ~numberGT(newValue, toNumber(0)) THEN Raised(InvalidOperationException)
    ELSE priceFromNumber(newValue, pair)

\* Price.applyPercentageChange for a whole percentage (percent.den = 1):
\* decimal arithmetic, value * (1 + percent / 100), handed to the private
\* constructor.  The percentages applied are multiples of 100, so that the
\* product is a whole number of hundredths.
applyPercentageChange(p, percentage) ==
    LET multiplier == 100 + percentage.percent.num
    IN  Returned([value |-> toNumber((p.value.hundredths * multiplier) \div 100),
                  pair |-> p.pair])

\* The operations of Price that return a Price made from the receiver and
\* numbers.
PriceDerivations ==
    {"multiplyBy", "divideBy", "applyPercentageChange", "roundToTickSize",
     "floorToTickSize", "ceilToTickSize", "addTicks"}

\* The whole numbers handed to an operation as its first and as its second
\* argument (0 where it takes none).
FirstArgumentSet(op) ==
    CASE op = "multiplyBy" -> {0 - 1, 0, 1, 2}
      [] op = "divideBy" -> {0 - 1, 0, 1}
      [] op = "applyPercentageChange" -> {0 - 100, 0, 100}
      [] op = "addTicks" -> {0 - 1, 0, 1}
      [] OTHER -> {0 - 1, 0, 1}
SecondArgumentSet(op) == IF op = "addTicks" THEN {0, 1} ELSE {0}

\* p.op(x), and p.addTicks(x, y), for whole numbers x and y; the divisor of
\* divideBy is 1 or -1 and a tick size that is accepted is 1.
priceDerivation(op, p, x, y) ==
    CASE op = "multiplyBy" ->
            positiveOrThrow(numberTimes(p.value, whole(x)), p.pair)
      [] op = "divideBy" ->
            IF x = 0 THEN Raised(InvalidOperationException)
            ELSE positiveOrThrow(IF x = 1 THEN p.value ELSE numberNegate(p.value),
                                 p.pair)
      [] op = "applyPercentageChange" ->
            applyPercentageChange(p, percentageFrom(x, 1, FALSE).value)
      [] op = "roundToTickSize" ->
            IF x <= 0 THEN Raised(InvalidOperationException)
            ELSE priceFromNumber(whole(mathRound(p.value) * x), p.pair)
      [] op = "floorToTickSize" ->
            IF x <= 0 THEN Raised(InvalidOperationException)
            ELSE priceFromNumber(whole(mathFloor(p.value) * x), p.pair)
      [] op = "ceilToTickSize" ->
            IF x <= 0 THEN Raised(InvalidOperationException)
            ELSE priceFromNumber(whole(mathCeil(p.value) * x), p.pair)
      [] op = "addTicks" ->
            IF y <= 0 THEN Raised(InvalidOperationException)
            ELSE positiveOrThrow(roundSigned(p.value.hundredths + 100 * (x * y),
                                             p.value.eps),
                                 p.pair)

\* The numbers handed to Price.from, in hundredths.
FromValueSet == {0 - 1, 0, 1, 100}

\* Amount.isValidVolume
isValidVolume(amount) == numberGE(amount.value, toNumber(0))

\* The white space String.prototype.trim strips (WhiteSpace and
\* LineTerminator of ECMAScript) that a string of this language can hold:
\* tab, vertical tab (U+000B), form feed, space, no-break space (U+00A0),
\* zero width no-break space (U+FEFF), ogham space mark (U+1680), line feed
\* and carriage return.  The others (U+2000 to U+200A, U+2028, U+2029,
\* U+202F, U+205F, U+3000) cannot be written in a string here, so no trade
\* id of the model holds them.
WhiteSpace == {"\t", "", "\f", " ", " ", "﻿", " ", "\n", "\r"}

\* String.prototype.trim on a string held as its sequence of characters.
RECURSIVE trim(_)
trim(str) ==
    IF Len(str) = 0 THEN str
    ELSE IF Head(str) \in WhiteSpace THEN trim(Tail(str))
    ELSE IF str[Len(str)] \in WhiteSpace THEN trim(SubSeq(str, 1, Len(str) - 1))
    ELSE str

\* Fill.from -> the constructor of Fill: it throws on the first check that
\* fails, else the fill holds the parameters as given.
newFill(params) ==
    IF ~isValidSize(params.executedQuantity) THEN Raised(InvalidValueObjectException)
    ELSE IF params.executedQuantity.asset # baseOf(params.pair)
    THEN Raised(InvalidValueObjectException)
    ELSE IF ~isValidVolume(params.fee) THEN Raised(InvalidValueObjectException)
    ELSE IF Len(params.tradeId) = 0 \/ Len(trim(params.tradeId)) = 0
    THEN Raised(InvalidValueObjectException)
    ELSE Returned(params)

\* The trade ids handed to Fill.from: empty, blank (spaces, a tab, a line
\* feed and a carriage return), and with a letter.
TradeIdSet ==
    {<< >>, <<" ">>, <<" ", " ">>, <<"\t">>, <<"\n", "\r">>, <<" ", "\t">>,
     <<"t">>, <<" ", "t">>, <<"t", " ">>, <<"\t", "t", "\n">>}

\* The parameters handed to Fill.from: quantities and fees of either sign
\* and zero, quantities of either asset, prices of either pair.
FillParamsSet ==
    {[pair |-> pair, exchangeOrderId |-> id, executedQuantity |-> quantity,
      executionPrice |-> price, fee |-> fee, timestamp |-> 1, tradeId |-> tradeId] :
        pair \in Pairs, id \in {"EX-1"},
        quantity \in {AmountFrom(k, asset) : k \in {0 - 1, 0, 1}, asset \in {"BTC", "ETH"}},
        price \in {PriceFrom(1, pricePair) : pricePair \in Pairs},
        fee \in {AmountFrom(k, "USDT") : k \in {0 - 1, 0, 1}},
        tradeId \in TradeIdSet}

\* a.add(b).subtract(b).equals(a): each call is made on what the one before
\* returned and a throw ends the chain.  The result holds the boolean, the
\* Amounts in between, and the operands as the calls leave them (add and
\* subtract build a new Amount and assign to no field).
addSubtractEquals(a, b) ==
    LET sum == amountOperation("add", a, b)
    IN  IF sum.error # NoError THEN sum
        ELSE LET difference == amountOperation("subtract", sum.value, b)
             IN  IF difference.error # NoError THEN difference
                 ELSE Returned([boolean |->
                                    amountOperation("equals", difference.value, a)
                                        .value.boolean,
                                sum |-> sum.value,
                                difference |-> difference.value,
                                a |-> a,
                                b |-> b])

\* No value object has been operated on yet.
InitValue ==
    /\ IdleOrder
    /\ NoPositions
    /\ NoSnapshot
    /\ now = 1
    /\ lastCall = [op |-> "none"]
    /\ lastError = NoError

\* An operation of a value object: it changes nothing but what the caller
\* sees.  The operations are pure and nothing carries over from one call to
\* the next, so a behaviour applies one operation to operands of its choice.
Operation(call, result) ==
    /\ lastCall = [op |-> "none"]
    /\ lastCall' = call
    /\ lastResult' = result
    /\ lastError' = result.error
    /\ UNCHANGED <<orderProps, now, positions, orderBook, callerArrays>>

amountOperationCalled(op, a, b) ==
    Operation([type |-> "Amount", op |-> op, a |-> a, b |-> b],
              amountOperation(op, a, b))

priceOperationCalled(op, p, q, r) ==
    Operation([type |-> "Price", op |-> op, p |-> p, q |-> q, r |-> r],
              priceOperation(op, p, q, IF op = "isBetween" THEN r ELSE q))

priceFromCalled(k, pair) ==
    Operation([type |-> "PriceFactory", op |-> "from", value |-> k, pair |-> pair],
              priceFromNumber(toNumber(k), pair))

priceDerivationCalled(op, p, x, y) ==
    Operation([type |-> "PriceDerivation", op |-> op, p |-> p, x |-> x, y |-> y],
              priceDerivation(op, p, x, y))

newFillCalled(params) ==
    Operation([type |-> "Fill", op |-> "from", params |-> params], newFill(params))

addSubtractEqualsCalled(a, b) ==
    Operation([type |-> "AmountChain", op |-> "add.subtract.equals", a |-> a, b |-> b],
              addSubtractEquals(a, b))

NextValue ==
    \/ \E op \in AmountOperations, a, b \in ValueAmountSet :
          amountOperationCalled(op, a, b)
    \/ \E op \in PriceOperations, p, q \in ValuePriceSet :
          \E r \in IF op = "isBetween" THEN ValuePriceSet ELSE {q} :
              priceOperationCalled(op, p, q, r)
    \/ \E k \in FromValueSet, pair \in Pairs : priceFromCalled(k, pair)
    \/ \E op \in PriceDerivations, p \in ValuePriceSet :
          \E x \in FirstArgumentSet(op), y \in SecondArgumentSet(op) :
              priceDerivationCalled(op, p, x, y)
    \/ \E params \in FillParamsSet : newFillCalled(params)
    \/ \E a, b \in ValueAmountSet : addSubtractEqualsCalled(a, b)

ValueSpec == InitValue /\ [][NextValue]_vars

----------------------------------------------------------------------------
(* Derived getters of Order and of Position.  An entity is an order or a    *)
(* position; its getters are called between its mutators.  The order is     *)
(* of whole units, filled in whole units at whole prices, so that the       *)
(* totals are whole numbers; a quotient is held as a fraction in lowest     *)
(* terms.                                                                   *)

\* Orders of one or two units, and their fills: quantity and fee in
\* hundredths, price in hundredths of the quote asset.
GetterParametersSet ==
    [pair : {OrderPair}, type : {"MARKET", "STOP_LOSS"}, quantity : {100, 200}]
GetterFillSet ==
    {[pair |-> OrderPair, exchangeOrderId |-> "EX-1", executedQuantity |-> 100,
      executionPrice |-> 100 * price, fee |-> price - 1] : price \in {1, 2}}

\* Order.getTotalFees: reduce over the fills with +, starting from 0.
RECURSIVE SumFees(_)
SumFees(fs) ==
    IF Len(fs) = 0 THEN toNumber(0)
    ELSE numberAdd(SumFees(SubSeq(fs, 1, Len(fs) - 1)), toNumber(fs[Len(fs)].fee))

getTotalFees(fs) == SumFees(fs)

\* Order.getAverageFillPrice, the totalValue of its loop:
\* totalValue += fill.executedQuantity.value * fill.executionPrice.value.
RECURSIVE SumValue(_)
SumValue(fs) ==
    IF Len(fs) = 0 THEN toNumber(0)
    ELSE numberAdd(SumValue(SubSeq(fs, 1, Len(fs) - 1)),
                   numberTimes(toNumber(fs[Len(fs)].executedQuantity),
                               toNumber(fs[Len(fs)].executionPrice)))

\* Order.getAverageFillPrice: undefined without fills or without quantity,
\* else totalValue / totalQuantity (both whole numbers here).
getAverageFillPrice(fs) ==
    LET totalValue == SumValue(fs)
        totalQuantity == SumExecuted(fs)
    IN  IF Len(fs) = 0 \/ ~numberGT(totalQuantity, toNumber(0))
        THEN [defined |-> FALSE, ratio |-> numberDivide(0, 1)]
        ELSE [defined |-> TRUE,
              ratio |-> numberDivide(totalValue.hundredths, totalQuantity.hundredths)]

\* Order.getRemainingQuantity: Math.max(0, quantity - filled), in the asset
\* of the requested quantity.
getRemainingQuantity(p, fs) ==
    LET remaining == numberSubtract(toNumber(p.quantity), getTotalFilledQuantity(fs))
    IN  [value |-> IF numberGE(remaining, toNumber(0)) THEN remaining ELSE toNumber(0),
         asset |-> baseOf(p.pair)]

\* The derived getters of Order.
OrderGetters ==
    {"getTotalFilledQuantity", "getTotalFees", "getAverageFillPrice",
     "getRemainingQuantity", "isTerminal", "isActive"}

\* What a getter of the order returns.
orderGetter(getter) ==
    CASE getter = "getTotalFilledQuantity" ->
            Returned([value |-> getTotalFilledQuantity(fills),
                      asset |-> baseOf(parameters.pair)])
      [] getter = "getTotalFees" ->
            Returned([value |-> getTotalFees(fills), asset |-> quoteOf(parameters.pair)])
      [] getter = "getAverageFillPrice" -> Returned(getAverageFillPrice(fills))
      [] getter = "getRemainingQuantity" ->
            Returned(getRemainingQuantity(parameters, fills))
      [] getter = "isTerminal" -> ReturnedBoolean(isTerminal(status))
      [] getter = "isActive" -> ReturnedBoolean(isActive(status))

\* A getter of the order is called: it assigns to no field of the order.
getterCalled(getter) ==
    /\ richPosition = NoPosition
    /\ lastCall' = Call(getter, Undefined, Undefined, NoFill)
    /\ lastResult' = orderGetter(getter)
    /\ lastError' = NoError
    /\ UNCHANGED <<orderProps, now, positions, orderBook, callerArrays>>

\* Position.calculateUnrealizedPnL(currentPrice) is called: it throws or
\* returns an Amount, and assigns to no field of the position.
calculateUnrealizedPnLCalled(currentPrice) ==
    LET result == calculateUnrealizedPnL(richPosition, currentPrice)
    IN  /\ richPosition # NoPosition
        /\ lastCall' = [op |-> "calculateUnrealizedPnL", currentPrice |-> currentPrice]
        /\ lastResult' = [error |-> result.error, value |-> result.amount]
        /\ lastError' = result.error
        /\ UNCHANGED <<orderProps, now, positions, orderBook, callerArrays>>

\* An order just created, or a position just opened.
InitGetter ==
    \/ NoPositions /\ NoSnapshot /\ \E p \in GetterParametersSet : create(p)
    \/ InitRich /\ richPosition # NoPosition

NextGetter ==
    \/ richPosition = NoPosition /\ markSubmitted("EX-1")
    \/ richPosition = NoPosition /\ markOpen
    \/ richPosition = NoPosition /\ \E fill \in GetterFillSet : addFill(fill)
    \/ richPosition = NoPosition /\ markCancelled
    \/ \E getter \in OrderGetters : getterCalled(getter)
    \/ richPosition # NoPosition
          /\ \E price \in PriceSet, size \in SizeSet : markAsOpened(price, size)
    \/ richPosition # NoPosition /\ markAsClosing(ExitOrderId)
    \/ \E price \in PriceSet : calculateUnrealizedPnLCalled(price)

GetterSpec == InitGetter /\ [][NextGetter]_vars

----------------------------------------------------------------------------
(* The top of the book on JavaScript numbers.  OrderBookSnapshotVo sorts,  *)
(* compares and averages Price.value, a double; here the prices of the     *)
(* levels are doubles held exactly as [hundredths, eps], among them        *)
(* neighbouring doubles.                                                   *)

\* Most units in the last place a quoted price lies above a whole price.
MaxUlps == 2

\* One unit in the last place of the double x > 0, in units of
\* 1 / (100 * 2^59).
ulpOf(x) == 100 * pow2(exponentOf(x.hundredths, x.eps) + 7)

\* Price.from(x, pair) for x the double n units in the last place above the
\* whole number w (1.0000000000000002 for w = 1 and n = 1).
QuotedPrice(w, n) ==
    LET x == toNumber(100 * w)
    IN  [value |-> [hundredths |-> x.hundredths, eps |-> x.eps + n * ulpOf(x)],
         pair |-> OrderPair]

\* OrderBookLevel.from(price, Amount.from(1, base)): levels at 1 and at 3
\* and at the doubles next above them.
QuotedLevelSet ==
    {[price |-> QuotedPrice(w, n), quantity |-> AmountFrom(100, baseOf(OrderPair))] :
        w \in {1, 3}, n \in 0..MaxUlps}

\* Arrays of at most two different quoted levels, in any order.
QuotedLadderInputs == {a \in ArraysOf(QuotedLevelSet, 2) : DistinctLevels(a)}

\* The stable sort of OrderBookSnapshotVo.from, with the comparator
\* b.getPrice().value - a.getPrice().value (or a - b) on doubles.
RECURSIVE insertQuotedLevel(_, _, _)
insertQuotedLevel(sorted, level, descending) ==
    IF sorted = << >> THEN <<level>>
    ELSE LET last == sorted[Len(sorted)]
             comesAfterLast ==
                 IF descending THEN lessThanOrEqual(level.price, last.price)
                 ELSE greaterThanOrEqual(level.price, last.price)
         IN  IF comesAfterLast THEN Append(sorted, level)
             ELSE Append(insertQuotedLevel(SubSeq(sorted, 1, Len(sorted) - 1),
                                           level, descending), last)

RECURSIVE sortQuotedLevels(_, _)
sortQuotedLevels(levels, descending) ==
    IF levels = << >> THEN << >>
    ELSE insertQuotedLevel(
             sortQuotedLevels(SubSeq(levels, 1, Len(levels) - 1), descending),
             levels[Len(levels)], descending)

\* bestBid.greaterThanOrEqual(bestAsk), on Prices.
crossedPrices(bestBid, bestAsk) == greaterThanOrEqual(bestBid, bestAsk)

\* OrderBookSnapshotVo.from(pair, bids, asks, timestamp) on quoted levels:
\* the snapshot it returns, or none when it throws.
fromQuoted(pair, bids, asks) ==
    LET sortedBids == sortQuotedLevels(bids, TRUE)
        sortedAsks == sortQuotedLevels(asks, FALSE)
        refused == \/ Len(bids) = 0
                   \/ Len(asks) = 0
                   \/ crossedPrices(sortedBids[1].price, sortedAsks[1].price)
    IN  /\ now = 1
        /\ lastCall = [op |-> "from", bids |-> bids, asks |-> asks]
        /\ lastResult = NoResult
        /\ callerArrays = [bids |-> bids, asks |-> asks]
        /\ IF refused
           THEN /\ lastError = InvalidValueObjectException
                /\ orderBook = NoOrderBook
           ELSE /\ lastError = NoError
                /\ orderBook = [pair |-> pair, bids |-> sortedBids,
                                asks |-> sortedAsks]

InitQuoted ==
    /\ IdleOrder
    /\ NoPositions
    /\ \E bids \in QuotedLadderInputs, asks \in QuotedLadderInputs :
          fromQuoted(OrderPair, bids, asks)

\* OrderBookSnapshotVo.getBestBid / getBestAsk
getBestBid(book) == book.bids[1]
getBestAsk(book) == book.asks[1]

\* x / 2 on JavaScript numbers, exact; for a double whose hundredths are
\* even (the sum of two prices of QuotedLevelSet).
numberHalve(x) == [hundredths |-> x.hundredths \div 2, eps |-> x.eps \div 2]

\* OrderBookSnapshotVo.getMidPrice: Price.from((bestBid.value +
\* bestAsk.value) / 2, pair).
getMidPrice(book) ==
    LET bestBid == getBestBid(book).price
        bestAsk == getBestAsk(book).price
        mid == numberHalve(numberAdd(bestBid.value, bestAsk.value))
    IN  priceFromNumber(mid, book.pair)

\* OrderBookSnapshotVo.getSpread: bestAsk.subtract(bestBid)
getSpread(book) ==
    Returned(priceSubtract(getBestAsk(book).price, getBestBid(book).price))

NextQuoted ==
    \/ Query([op |-> "getBestBid"], Returned(getBestBid(orderBook)))
    \/ Query([op |-> "getBestAsk"], Returned(getBestAsk(orderBook)))
    \/ Query([op |-> "getMidPrice"], getMidPrice(orderBook))
    \/ Query([op |-> "getSpread"], getSpread(orderBook))

QuotedSpec == InitQuoted /\ [][NextQuoted]_vars

----------------------------------------------------------------------------
(* Simulated market orders on a book of decimal fractions: the levels hold  *)
(* whole prices and quantities of tenths, the sizes are tenths, and the     *)
(* loop of estimateMarketBuy / estimateMarketSell adds and subtracts the    *)
(* doubles nearest to them.                                                 *)

\* Largest size of a simulated market order, in tenths of the base asset.
MaxTenths == 8

\* OrderBookLevel.from(Price.from(price, pair), Amount.from(tenths / 10, base))
TenthsLevel(price, tenths) ==
    [price |-> PriceFrom(100 * price, OrderPair),
     quantity |-> AmountFrom(10 * tenths, baseOf(OrderPair))]

\* Levels a caller offers as bids / as asks: 0.1 or 0.7 at a price of 1 or
\* 2, and at a price of 3 or 4.
TenthsBidLevelSet == {TenthsLevel(price, tenths) : price \in {1, 2}, tenths \in {1, 7}}
TenthsAskLevelSet == {TenthsLevel(price, tenths) : price \in {3, 4}, tenths \in {1, 7}}

\* Arrays of at most two different levels, in any order.
TenthsLadderInputs(levels) == {a \in ArraysOf(levels, 2) : DistinctLevels(a)}

\* Sizes of a simulated market order: Amounts of 0, 0.1, ... of the base
\* asset, and 0.1 of another asset.
TenthsSizeSet ==
    {AmountFrom(10 * tenths, baseOf(OrderPair)) : tenths \in 0..MaxTenths}
        \cup {AmountFrom(10, "ETH")}

InitTenths ==
    /\ IdleOrder
    /\ NoPositions
    /\ \E bids \in TenthsLadderInputs(TenthsBidLevelSet),
          asks \in TenthsLadderInputs(TenthsAskLevelSet) :
          fromQuoted(OrderPair, bids, asks)

NextTenths ==
    \/ \E size \in TenthsSizeSet :
          Query([op |-> "estimateMarketBuy", size |-> size],
                estimateMarketBuy(orderBook, size))
    \/ \E size \in TenthsSizeSet :
          Query([op |-> "estimateMarketSell", size |-> size],
                estimateMarketSell(orderBook, size))

TenthsSpec == InitTenths /\ [][NextTenths]_vars

----------------------------------------------------------------------------
(* Properties of the Order state machine *)

\* Sum of the executed quantities of a fills list, taken from the head.
RECURSIVE TotalOf(_)
TotalOf(fs) ==
    IF fs = << >> THEN 0 ELSE Head(fs).executedQuantity + TotalOf(Tail(fs))

\* The last step was a call of method op.
Called(op) == lastCall.op = op

\* The statuses in which the specification lets an order take a fill:
\* PENDING or SUBMITTED for a market order, OPEN or PARTIALLY_FILLED for a
\* stop-loss / take-profit order.
AcceptingStatus ==
    \/ parameters.type = "MARKET" /\ status \in {"PENDING", "SUBMITTED"}
    \/ parameters.type \in {"STOP_LOSS", "TAKE_PROFIT"}
         /\ status \in {"OPEN", "PARTIALLY_FILLED"}

\* The order has an exchange order id and the fill of the coming addFill
\* carries another one.
ForeignFill ==
    exchangeOrderId # Undefined /\ lastCall'.fill.exchangeOrderId # exchangeOrderId

\* C1: once the status is FILLED, CANCELLED, REJECTED or FAILED, no operation
\* changes it again (the four terminal states are absorbing).
C1_TerminalAbsorbing ==
    [][(status \in {"FILLED", "CANCELLED", "REJECTED", "FAILED"})
          => (status' = status)]_vars

\* C2: for every order type, fills accumulate: an addFill of a fill of this
\* order is accepted in the type's first filling status and again in
\* PARTIALLY_FILLED, and leaves the order PARTIALLY_FILLED while the
\* cumulative quantity is below the requested one and FILLED as soon as it
\* reaches it.
C2_FillsAccumulate ==
    [][(lastCall'.op = "addFill" /\ ~ForeignFill
          /\ (AcceptingStatus \/ status = "PARTIALLY_FILLED"))
          => /\ lastError' = NoError
             /\ fills' = Append(fills, lastCall'.fill)
             /\ status' = IF TotalOf(fills') >= parameters.quantity
                          THEN "FILLED" ELSE "PARTIALLY_FILLED"]_vars

\* C3 as stated: addFill is accepted only in an accepting status of the
\* order's type; in every other status it fails with an
\* invalid-state-transition error and leaves status and fills unchanged.
C3_AddFillGuardAsStated ==
    [][lastCall'.op = "addFill"
          => IF AcceptingStatus
             THEN TRUE
             ELSE /\ lastError' = InvalidStateTransitionException
                  /\ status' = status
                  /\ fills' = fills]_vars

\* C3 amended: addFill is accepted only in an accepting status of the order's
\* type; in every other status it fails and leaves status and fills
\* unchanged, with an order-validation error when the order has an exchange
\* order id and the fill carries another one, and with an
\* invalid-state-transition error otherwise.
C3_AddFillGuard ==
    [][lastCall'.op = "addFill"
          => IF AcceptingStatus
             THEN TRUE
             ELSE /\ lastError' = IF ForeignFill
                                  THEN OrderValidationException
                                  ELSE InvalidStateTransitionException
                  /\ status' = status
                  /\ fills' = fills]_vars

\* C3 witness: a market order that is PARTIALLY_FILLED has just refused a
\* fill with an invalid-state-transition error.
C3_Witness ==
    /\ Called("addFill")
    /\ lastError = InvalidStateTransitionException
    /\ parameters.type = "MARKET"
    /\ status = "PARTIALLY_FILLED"

\* C4: after every successful addFill the status is FILLED, with completedAt
\* set, exactly when the sum of the executed quantities of all fills is at
\* least the requested quantity, and PARTIALLY_FILLED, with completedAt
\* unset, otherwise.
C4_FilledIffTotalReached ==
    (Called("addFill") /\ lastError = NoError)
        => IF TotalOf(fills) >= parameters.quantity
           THEN status = "FILLED" /\ completedAt # NoTime
           ELSE status = "PARTIALLY_FILLED" /\ completedAt = NoTime


\* C5 as stated: once an order is FILLED, every later addFill fails with an
\* invalid-state-transition error and fills, total and status stay.
C5_NoFillAfterFilledAsStated ==
    [][(status = "FILLED" /\ lastCall'.op = "addFill")
          => /\ lastError' = InvalidStateTransitionException
             /\ fills' = fills
             /\ TotalOf(fills') = TotalOf(fills)
             /\ status' = "FILLED"]_vars

\* C5 amended: once an order is FILLED, every later addFill fails, with an
\* order-validation error when the fill carries another exchange order id
\* than the order's and with an invalid-state-transition error otherwise,
\* and fills, total and status stay.
C5_NoFillAfterFilled ==
    [][(status = "FILLED" /\ lastCall'.op = "addFill")
          => /\ lastError' = IF ForeignFill
                             THEN OrderValidationException
                             ELSE InvalidStateTransitionException
             /\ fills' = fills
             /\ TotalOf(fills') = TotalOf(fills)
             /\ status' = "FILLED"]_vars

\* C5 witness: a FILLED stop-loss order has just refused one more fill of
\* its own exchange order id.
C5_Witness ==
    /\ status = "FILLED"
    /\ parameters.type = "STOP_LOSS"
    /\ Called("addFill")
    /\ lastCall.fill.exchangeOrderId = exchangeOrderId
    /\ lastError = InvalidStateTransitionException

\* C6: markSubmitted succeeds only when the status is PENDING, and then sets
\* SUBMITTED and records the exchange order id and submittedAt; in any other
\* status it fails with an invalid-state-transition error and changes
\* neither the status nor the stored exchange order id.
C6_MarkSubmitted ==
    [][lastCall'.op = "markSubmitted"
          => IF status = "PENDING"
             THEN /\ lastError' = NoError
                  /\ status' = "SUBMITTED"
                  /\ exchangeOrderId' = lastCall'.exchangeOrderId
                  /\ submittedAt' \in now..now'
             ELSE /\ lastError' = InvalidStateTransitionException
                  /\ status' = status
                  /\ exchangeOrderId' = exchangeOrderId
                  /\ submittedAt' = submittedAt]_vars

\* C6 witness: a second markSubmitted, with another id, has just been
\* refused and the stored id is still the first one.
C6_Witness ==
    /\ Called("markSubmitted")
    /\ lastError = InvalidStateTransitionException
    /\ exchangeOrderId # Undefined
    /\ lastCall.exchangeOrderId # exchangeOrderId

\* C7: markOpen succeeds only from SUBMITTED and then sets OPEN; it applies
\* to stop-loss / take-profit orders only, so a market order is never OPEN.
C7_MarketNeverOpen ==
    /\ parameters.type = "MARKET" => status # "OPEN"
    /\ (Called("markOpen") /\ lastError = NoError) => status = "OPEN"

\* C8: markCancelled moves an order from PENDING, SUBMITTED, OPEN or
\* PARTIALLY_FILLED to CANCELLED and stamps completedAt; on a FILLED,
\* REJECTED or CANCELLED order it fails with an invalid-state-transition
\* error and leaves the order unchanged.
C8_MarkCancelled ==
    [][lastCall'.op = "markCancelled"
          => /\ status \in {"PENDING", "SUBMITTED", "OPEN", "PARTIALLY_FILLED"}
                  => /\ lastError' = NoError
                     /\ status' = "CANCELLED"
                     /\ completedAt' # NoTime
                     /\ completedAt' \in now..now'
             /\ status \in {"FILLED", "REJECTED", "CANCELLED"}
                  => /\ lastError' = InvalidStateTransitionException
                     /\ orderProps' = orderProps]_vars

\* C8 witness: a partially filled order has just been cancelled.
C8_Witness ==
    /\ Called("markCancelled")
    /\ lastError = NoError
    /\ status = "CANCELLED"
    /\ fills # << >>
    /\ completedAt # NoTime

\* C9: markRejected succeeds only from PENDING or SUBMITTED, setting REJECTED
\* and recording the reason; from OPEN, PARTIALLY_FILLED or a terminal status
\* it fails and leaves status and rejectionReason unchanged.
C9_MarkRejected ==
    [][lastCall'.op = "markRejected"
          => IF status \in {"PENDING", "SUBMITTED"}
             THEN /\ lastError' = NoError
                  /\ status' = "REJECTED"
                  /\ rejectionReason' = lastCall'.reason
             ELSE /\ lastError' # NoError
                  /\ status' = status
                  /\ rejectionReason' = rejectionReason]_vars

\* C9 witness: an OPEN order has just refused a rejection.
C9_Witness ==
    /\ Called("markRejected")
    /\ lastError # NoError
    /\ status = "OPEN"
    /\ rejectionReason = Undefined

\* C10: markFailed succeeds from every status except FILLED, setting FAILED
\* and recording the reason; on a FILLED order it fails and leaves status,
\* rejectionReason and completedAt unchanged.
C10_MarkFailed ==
    [][lastCall'.op = "markFailed"
          => IF status # "FILLED"
             THEN /\ lastError' = NoError
                  /\ status' = "FAILED"
                  /\ rejectionReason' = lastCall'.reason
             ELSE /\ lastError' # NoError
                  /\ status' = "FILLED"
                  /\ rejectionReason' = rejectionReason
                  /\ completedAt' = completedAt]_vars

\* C10 witness: a FILLED order has just refused markFailed.
C10_Witness ==
    /\ Called("markFailed")
    /\ lastError # NoError
    /\ status = "FILLED"
    /\ rejectionReason = Undefined

\* a is a prefix of b.
IsPrefix(a, b) == Len(a) <= Len(b) /\ SubSeq(b, 1, Len(a)) = a

\* C11: the fills list is append-only: at every step the list before is a
\* prefix of the list after (so the list at an earlier moment is a prefix of
\* the list at every later one); no operation removes, reorders or replaces
\* a fill, and a caller mutating the array the fills getter returned does not
\* change the order's list.
C11_FillsAppendOnly ==
    [][IsPrefix(fills, fills')]_vars

\* C11 witness: a caller has just popped the array it got from the getter
\* of an order holding two fills, and the order still holds both.
C11_Witness ==
    /\ Called("fills.pop")
    /\ Len(fills) = 2

\* Every fill of an order that has an exchange order id carries that id.
FillsCarryOrderId ==
    exchangeOrderId # Undefined
        => \A i \in 1..Len(fills) : fills[i].exchangeOrderId = exchangeOrderId

\* C12: when the order has an exchange order id, addFill of a fill carrying
\* another id fails with an order-validation error and leaves status and
\* fills unchanged; so every fill of an order that has an exchange order id
\* carries that id.
C12_ForeignFillRefused ==
    /\ FillsCarryOrderId
    /\ [][/\ (lastCall'.op = "addFill" /\ ForeignFill)
               => /\ lastError' = OrderValidationException
                  /\ status' = status
                  /\ fills' = fills
           /\ FillsCarryOrderId']_vars

\* C12 witness: a partially filled stop-loss order, which takes fills, has
\* just refused a fill of another exchange order id.
C12_Witness ==
    /\ Called("addFill")
    /\ lastError = OrderValidationException
    /\ lastCall.fill.exchangeOrderId # exchangeOrderId
    /\ parameters.type = "STOP_LOSS"
    /\ status = "PARTIALLY_FILLED"
    /\ fills # << >>

\* C13: every fill the order holds belongs to the order's trading pair: a
\* fill for another pair is rejected at addFill.
C13_FillsOfOrderPair ==
    \A i \in 1..Len(fills) : fills[i].pair = parameters.pair

----------------------------------------------------------------------------
(* Properties of the Position with intended and actual levels *)

\* The decimal a price or an amount stands for, in hundredths.
DecimalOf(x) == x.value.hundredths

\* Whole units of a size.
UnitsOf(size) == DecimalOf(size) \div 100

\* level is on the losing side of entry (below it for LONG, above for SHORT).
OnStopSide(side, level, entry) ==
    IF side = "LONG" THEN DecimalOf(level) < DecimalOf(entry)
                     ELSE DecimalOf(level) > DecimalOf(entry)

\* level is on the winning side of entry (above it for LONG, below for SHORT).
OnProfitSide(side, level, entry) ==
    IF side = "LONG" THEN DecimalOf(level) > DecimalOf(entry)
                     ELSE DecimalOf(level) < DecimalOf(entry)

\* (exit - entry) * size for LONG, (entry - exit) * size for SHORT, in
\* hundredths of the quote asset.
ExactPnL(side, entry, exit, size) ==
    IF side = "LONG"
    THEN (DecimalOf(exit) - DecimalOf(entry)) * UnitsOf(size)
    ELSE (DecimalOf(entry) - DecimalOf(exit)) * UnitsOf(size)

\* C14: markAsOpened succeeds only from OPENING and leads to OPEN,
\* markAsClosing only from OPEN and leads to CLOSING, markAsClosed only from
\* CLOSING or OPEN and leads to CLOSED; every other call fails, and a failing
\* call leaves the whole position unchanged; markAsClosed on a position that
\* was never opened fails.
C14_PositionTransitionsGuarded ==
    [][/\ lastCall'.op = "markAsOpened"
            => IF richPosition.status = "OPENING"
               THEN lastError' = NoError => richPosition'.status = "OPEN"
               ELSE lastError' # NoError
       /\ lastCall'.op = "markAsClosing"
            => IF richPosition.status = "OPEN"
               THEN lastError' = NoError => richPosition'.status = "CLOSING"
               ELSE lastError' # NoError
       /\ lastCall'.op = "markAsClosed"
            => IF richPosition.status \in {"CLOSING", "OPEN"}
               THEN lastError' = NoError => richPosition'.status = "CLOSED"
               ELSE lastError' # NoError
       /\ (lastCall'.op = "markAsClosed" /\ richPosition.actualEntryPrice = NoPrice)
            => lastError' # NoError
       /\ (lastCall'.op \in {"markAsOpened", "markAsClosing", "markAsClosed"}
             /\ lastError' # NoError)
            => richPosition' = richPosition]_vars

\* C14 witness: a position still OPENING has just refused markAsClosed.
C14_Witness ==
    /\ Called("markAsClosed")
    /\ lastError = InvalidOperationException
    /\ richPosition.status = "OPENING"
    /\ richPosition.actualEntryPrice = NoPrice

\* C15: Position.open rejects every LONG position whose stop-loss is at or
\* above the entry or whose take-profit is at or below it, and every SHORT
\* position whose stop-loss is at or below the entry or whose take-profit is
\* at or above it; a position it returns is OPENING with
\* stopLoss < entry < takeProfit (LONG) or takeProfit < entry < stopLoss
\* (SHORT).
C15_OpenDirectionalGuard ==
    Called("open")
        => LET params == lastCall.params
               levelsOk == /\ OnStopSide(params.side, params.intendedStopLoss,
                                         params.intendedEntry)
                           /\ OnProfitSide(params.side, params.intendedTakeProfit,
                                           params.intendedEntry)
           IN  /\ ~levelsOk => (lastError # NoError /\ richPosition = NoPosition)
               /\ lastError = NoError
                    => /\ richPosition.status = "OPENING"
                       /\ OnStopSide(richPosition.side, richPosition.intendedStopLoss,
                                     richPosition.intendedEntry)
                       /\ OnProfitSide(richPosition.side,
                                       richPosition.intendedTakeProfit,
                                       richPosition.intendedEntry)

\* C15 witness: Position.open has just refused a LONG position of valid
\* pair and size whose stop-loss equals its entry price.
C15_Witness ==
    /\ Called("open")
    /\ lastError = InvalidOperationException
    /\ richPosition = NoPosition
    /\ ~openRefusedLevelsUnchecked(lastCall.params)
    /\ lastCall.params.side = "LONG"
    /\ lastCall.params.intendedStopLoss = lastCall.params.intendedEntry
    /\ DecimalOf(lastCall.params.intendedTakeProfit)
         > DecimalOf(lastCall.params.intendedEntry)

\* C17: after a successful markAsClosed with exit price x and fees f on a
\* position of actual entry e and actual size s, realizedPnL is
\* (x - e) * s - f for LONG and (e - x) * s - f for SHORT, in the quote
\* asset.
C17_RealizedPnL ==
    (Called("markAsClosed") /\ lastError = NoError)
        => richPosition.realizedPnL =
             AmountFrom(ExactPnL(richPosition.side, richPosition.actualEntryPrice,
                                 richPosition.actualExitPrice, richPosition.actualSize)
                          - DecimalOf(richPosition.fees),
                        quoteOf(richPosition.tradingPair))

\* C18: updateStopLoss and updateTakeProfit succeed only while the position
\* is OPEN and only with a level on the correct side of the actual entry
\* price (LONG: stop-loss below it, take-profit above it; SHORT inverted),
\* whatever the intended entry was; otherwise they fail and leave the stored
\* level and its order id unchanged.
C18_UpdateLevels ==
    [][/\ lastCall'.op = "updateStopLoss"
            => IF lastError' = NoError
               THEN /\ richPosition.status = "OPEN"
                    /\ OnStopSide(richPosition.side, richPosition'.intendedStopLoss,
                                  richPosition.actualEntryPrice)
               ELSE /\ richPosition'.intendedStopLoss = richPosition.intendedStopLoss
                    /\ richPosition'.stopLossOrderId = richPosition.stopLossOrderId
       /\ lastCall'.op = "updateTakeProfit"
            => IF lastError' = NoError
               THEN /\ richPosition.status = "OPEN"
                    /\ OnProfitSide(richPosition.side,
                                    richPosition'.intendedTakeProfit,
                                    richPosition.actualEntryPrice)
               ELSE /\ richPosition'.intendedTakeProfit
                         = richPosition.intendedTakeProfit
                    /\ richPosition'.takeProfitOrderId
                         = richPosition.takeProfitOrderId]_vars

\* C18 witness: a LONG position filled above its intended entry has just had
\* its stop-loss moved to the intended entry price, below the actual one.
C18_Witness ==
    /\ Called("updateStopLoss")
    /\ lastError = NoError
    /\ richPosition.side = "LONG"
    /\ richPosition.stopLossOrderId = NewOrderId
    /\ richPosition.intendedStopLoss = richPosition.intendedEntry
    /\ DecimalOf(richPosition.intendedStopLoss)
         < DecimalOf(richPosition.actualEntryPrice)

\* C16: a position is immutable once CLOSED: from then on every mutating
\* operation of either Position fails or leaves every field unchanged.
C16_ClosedImmutable ==
    [][/\ richPosition.status = "CLOSED" => richPosition' = richPosition
       /\ simplePosition.status = "CLOSED" => simplePosition' = simplePosition]_vars

\* C19: calculateUnrealizedPnL yields a value only while the position is
\* OPEN, and then (mark - entry) * size for LONG and (entry - mark) * size
\* for SHORT, on the actual entry and size; in any other status the first
\* Position throws and the second returns undefined.
C19_UnrealizedPnLOnlyOpen ==
    /\ richPosition # NoPosition
         => \A mark \in PriceSet :
              mark.pair = richPosition.tradingPair
                => LET result == calculateUnrealizedPnL(richPosition, mark)
                   IN  IF richPosition.status = "OPEN"
                       THEN /\ result.error = NoError
                            /\ result.amount =
                                 AmountFrom(ExactPnL(richPosition.side,
                                                     richPosition.actualEntryPrice,
                                                     mark, richPosition.actualSize),
                                            quoteOf(richPosition.tradingPair))
                       ELSE result.error # NoError
    /\ simplePosition # NoPosition
         => \A mark \in PriceSet :
              LET result == simpleUnrealizedPnL(simplePosition, mark)
              IN  IF simplePosition.status = "OPEN"
                  THEN /\ result.defined
                       /\ result.amount =
                            AmountFrom(ExactPnL(simplePosition.side,
                                                simplePosition.entryPrice,
                                                mark, simplePosition.entryQuantity),
                                       quoteOf(simplePosition.pair))
                  ELSE ~result.defined

\* C20: markLiquidated succeeds only from OPEN or CLOSING, so LIQUIDATED is
\* never reached from OPENING, CLOSED or LIQUIDATED; markClosed succeeds only
\* from CLOSING; after CLOSED or LIQUIDATED no operation changes the status.
C20_Liquidation ==
    [][/\ lastCall'.op = "markLiquidated"
            => IF simplePosition.status \in {"OPEN", "CLOSING"}
               THEN lastError' = NoError => simplePosition'.status = "LIQUIDATED"
               ELSE /\ lastError' # NoError
                    /\ simplePosition'.status = simplePosition.status
       /\ (simplePosition'.status = "LIQUIDATED"
             /\ simplePosition.status # "LIQUIDATED")
            => simplePosition.status \in {"OPEN", "CLOSING"}
       /\ (lastCall'.op = "markClosed" /\ lastError' = NoError)
            => /\ simplePosition.status = "CLOSING"
               /\ simplePosition'.status = "CLOSED"
       /\ simplePosition.status \in {"CLOSED", "LIQUIDATED"}
            => simplePosition'.status = simplePosition.status]_vars

\* C20 witness: a CLOSED position has just refused markLiquidated.
C20_Witness ==
    /\ Called("markLiquidated")
    /\ lastError = InvalidStateTransitionException
    /\ simplePosition.status = "CLOSED"

\* A price is unset or a price of the pair; an amount is unset or in the asset.
PriceOfPair(price, pair) == price = NoPrice \/ price.pair = pair
AmountInAsset(amount, asset) == amount = NoAmount \/ amount.asset = asset

\* C21: in every reachable state all prices a position holds are prices of
\* its trading pair, all its sizes are in the pair's base asset and all its
\* fees are in the pair's quote asset.
C21_PositionPairInvariant ==
    /\ richPosition # NoPosition
         => LET pair == richPosition.tradingPair IN
            /\ PriceOfPair(richPosition.intendedEntry, pair)
            /\ PriceOfPair(richPosition.intendedStopLoss, pair)
            /\ PriceOfPair(richPosition.intendedTakeProfit, pair)
            /\ PriceOfPair(richPosition.actualEntryPrice, pair)
            /\ PriceOfPair(richPosition.actualExitPrice, pair)
            /\ AmountInAsset(richPosition.intendedSize, baseOf(pair))
            /\ AmountInAsset(richPosition.actualSize, baseOf(pair))
            /\ AmountInAsset(richPosition.fees, quoteOf(pair))
    /\ simplePosition # NoPosition
         => LET pair == simplePosition.pair IN
            /\ PriceOfPair(simplePosition.entryPrice, pair)
            /\ PriceOfPair(simplePosition.exitPrice, pair)
            /\ PriceOfPair(simplePosition.stopLossPrice, pair)
            /\ PriceOfPair(simplePosition.takeProfitPrice, pair)
            /\ AmountInAsset(simplePosition.entryQuantity, baseOf(pair))
            /\ AmountInAsset(simplePosition.exitQuantity, baseOf(pair))
            /\ AmountInAsset(simplePosition.entryFees, quoteOf(pair))
            /\ AmountInAsset(simplePosition.exitFees, quoteOf(pair))

----------------------------------------------------------------------------
(* Properties of the order book snapshot *)

\* Total quantity resting on a ladder of whole numbers.
RECURSIVE Depth(_)
Depth(ladder) ==
    IF ladder = << >> THEN 0 ELSE ladder[1].quantity + Depth(Tail(ladder))

\* The ladder a simulated market order consumes.
OpposingLadder(op) ==
    IF op = "estimateMarketBuy" THEN orderBook.asks ELSE orderBook.bids

EstimateCalled == lastCall.op \in {"estimateMarketBuy", "estimateMarketSell"}

\* C22: estimateMarketBuy and estimateMarketSell raise only when the size is
\* not in the pair's base asset; a size in the base asset is answered with a
\* result whose filledQuantity is the size, or the depth of the opposing
\* ladder when the size is beyond it, and whose fullyFilled tells which.
C22_NoRaiseOnInsufficientDepth ==
    EstimateCalled
        => LET depth == whole(Depth(OpposingLadder(lastCall.op)))
               covered == numberGE(depth, lastCall.size.value)
           IN  /\ lastError # NoError
                    => lastCall.size.asset # baseOf(orderBook.pair)
               /\ lastCall.size.asset = baseOf(orderBook.pair)
                    => /\ "filledQuantity" \in DOMAIN lastResult
                       /\ lastResult.filledQuantity.value =
                            (IF covered THEN lastCall.size.value ELSE depth)
                       /\ "fullyFilled" \in DOMAIN lastResult
                       /\ lastResult.fullyFilled = covered

\* The total an estimate returned: totalCost of a buy, totalRevenue of a sell.
ResultTotal ==
    IF lastCall.op = "estimateMarketBuy"
    THEN lastResult.totalCost ELSE lastResult.totalRevenue

\* Total quantity resting on a ladder, in hundredths.
RECURSIVE DecimalDepth(_)
DecimalDepth(ladder) ==
    IF ladder = << >> THEN 0
    ELSE DecimalOf(ladder[1].quantity) + DecimalDepth(Tail(ladder))

\* The cost of the walk described, on decimals (in hundredths; the prices
\* are whole numbers): min(remaining, quantity) taken at each level in turn,
\* at the price of the level.
RECURSIVE DecimalCost(_, _)
DecimalCost(ladder, remaining) ==
    IF ladder = << >> \/ remaining = 0 THEN 0
    ELSE LET quantity == DecimalOf(ladder[1].quantity)
             taken == IF remaining <= quantity THEN remaining ELSE quantity
         IN  taken * (DecimalOf(ladder[1].price) \div 100)
                 + DecimalCost(Tail(ladder), remaining - taken)

\* The ladder runs from the best price outward: ascending for a buy,
\* descending for a sell.
BestFirst(ladder, buying) ==
    \A i, j \in 1..Len(ladder) :
        i < j => IF buying THEN lessThanOrEqual(ladder[i].price, ladder[j].price)
                 ELSE greaterThanOrEqual(ladder[i].price, ladder[j].price)

\* The JavaScript number of the decimal quotient a / b of two decimals.
DecimalQuotient(a, b) ==
    numberQuotient([hundredths |-> a, eps |-> 0], [hundredths |-> b, eps |-> 0])

\* C23: the market-order simulation walks the opposing ladder from the best
\* price outward taking min(remaining, level quantity) at each level until
\* the size or the ladder is exhausted.  The quantity filled is min(size,
\* total depth): an estimate that returns has filled the size, and one that
\* stops for want of liquidity at the end of the ladder has filled the depth,
\* which is less than the size.  The total returned is the sum over the
\* levels, best price first, of the quantity taken times the level's price,
\* and the average price is that total over the quantity filled.
C23_WalkFromBestPrice ==
    (/\ EstimateCalled
     /\ lastCall.size.asset = baseOf(orderBook.pair)
     /\ DecimalOf(lastCall.size) > 0)
        => LET ladder == OpposingLadder(lastCall.op)
               size   == DecimalOf(lastCall.size)
               depth  == DecimalDepth(ladder)
               filled == IF size <= depth THEN size ELSE depth
               cost   == DecimalCost(ladder, size)
           IN  /\ BestFirst(ladder, lastCall.op = "estimateMarketBuy")
               /\ IF lastError = NoError
                  THEN /\ filled = size
                       /\ ResultTotal.value = toNumber(cost)
                       /\ lastResult.averagePrice.value = DecimalQuotient(cost, filled)
                  ELSE /\ lastResult.message = "Insufficient liquidity for order"
                       /\ filled < size
                       /\ lastResult.context.available = toNumber(filled)

\* The call of the worked example: a market buy of 2 estimated on the asks
\* (50100, 1), (50200, 2), (50300, 3).
WorkedExampleCalled ==
    /\ lastCall.op = "estimateMarketBuy"
    /\ lastCall.size = AmountFrom(200, baseOf(OrderPair))
    /\ orderBook.asks = <<Level(50100, 1), Level(50200, 2), Level(50300, 3)>>

\* C24: estimateMarketBuy on asks (50100, 1), (50200, 2), (50300, 3) for
\* size 2 yields filledQuantity = 2, totalCost = 150400,
\* averagePrice = 75200 and fullyFilled = true.
C24_WorkedExampleAsStated ==
    WorkedExampleCalled
        => /\ lastError = NoError
           /\ lastResult.totalCost.value = whole(150400)
           /\ lastResult.averagePrice.value = DecimalQuotient(7520000, 100)
           /\ "filledQuantity" \in DOMAIN lastResult
           /\ lastResult.filledQuantity.value = whole(2)
           /\ "fullyFilled" \in DOMAIN lastResult
           /\ lastResult.fullyFilled

\* The levels of a ladder as a set, and its highest / lowest price.
LevelsOf(ladder) == {ladder[i] : i \in 1..Len(ladder)}
HighestPrice(ladder) ==
    CHOOSE p \in {l.price : l \in LevelsOf(ladder)} :
        \A l \in LevelsOf(ladder) : l.price <= p
LowestPrice(ladder) ==
    CHOOSE p \in {l.price : l \in LevelsOf(ladder)} :
        \A l \in LevelsOf(ladder) : l.price >= p

Descending(ladder) ==
    \A i, j \in 1..Len(ladder) : i < j => ladder[i].price >= ladder[j].price
Ascending(ladder) ==
    \A i, j \in 1..Len(ladder) : i < j => ladder[i].price <= ladder[j].price

\* Two arrays hold the same levels, in whatever order.
SameLevels(a, b) == Len(a) = Len(b) /\ LevelsOf(a) = LevelsOf(b)

\* C25: OrderBookSnapshotVo.from fails whenever a side is empty or the
\* highest bid is at or above the lowest ask; on any other input, in any
\* order, the snapshot holds the given bids in descending and the given asks
\* in ascending price order, and the caller's arrays are as they were.
C25_SnapshotConstruction ==
    /\ orderBook # NoOrderBook
         => /\ Descending(orderBook.bids)
            /\ Ascending(orderBook.asks)
            /\ HighestPrice(orderBook.bids) < LowestPrice(orderBook.asks)
    /\ lastCall.op = "from"
         => LET bids == lastCall.bids
                asks == lastCall.asks
            IN  /\ callerArrays = [bids |-> bids, asks |-> asks]
                /\ IF \/ Len(bids) = 0
                      \/ Len(asks) = 0
                      \/ HighestPrice(bids) >= LowestPrice(asks)
                   THEN /\ lastError # NoError
                        /\ orderBook = NoOrderBook
                   ELSE /\ lastError = NoError
                        /\ SameLevels(orderBook.bids, bids)
                        /\ SameLevels(orderBook.asks, asks)

\* C25 witness: a snapshot has been built from bids and asks that were
\* both handed over out of order.
C25_Witness ==
    /\ lastCall.op = "from"
    /\ lastError = NoError
    /\ ~Descending(lastCall.bids)
    /\ ~Ascending(lastCall.asks)
    /\ Len(orderBook.bids) = MaxLevels
    /\ callerArrays.bids # orderBook.bids

\* (bidLiquidity - askLiquidity) / (bidLiquidity + askLiquidity), as a sign
\* and a fraction in lowest terms.
ImbalanceAsSpecified(bidLiq, askLiq) ==
    IF bidLiq >= askLiq
    THEN [sign |-> 1, ratio |-> numberDivide(bidLiq - askLiq, bidLiq + askLiq)]
    ELSE [sign |-> -1, ratio |-> numberDivide(askLiq - bidLiq, bidLiq + askLiq)]

\* C26: getLiquidityImbalance returns (bidLiquidity - askLiquidity) /
\* (bidLiquidity + askLiquidity) over the first N levels of each side: 0 when
\* the two liquidities are equal, negative when asks dominate, and always
\* within [-1, 1].
C26_LiquidityImbalance ==
    lastCall.op = "getLiquidityImbalance"
        => LET bidLiq == getBidLiquidity(orderBook, lastCall.levels).value
               askLiq == getAskLiquidity(orderBook, lastCall.levels).value
           IN  /\ lastResult = ImbalanceAsSpecified(bidLiq, askLiq)
               /\ lastResult.ratio.num <= lastResult.ratio.den
               /\ bidLiq = askLiq => lastResult.ratio.num = 0
               /\ bidLiq < askLiq => lastResult.sign = -1

\* Sum of price times quantity over the first n levels of a ladder.
RECURSIVE ValueOfFirst(_, _)
ValueOfFirst(ladder, n) ==
    IF n = 0 \/ ladder = << >> THEN 0
    ELSE ladder[1].price * ladder[1].quantity + ValueOfFirst(Tail(ladder), n - 1)

\* C27: getBidLiquidity(N) and getAskLiquidity(N) return the sum of price
\* times quantity over exactly the first N levels of their side, for every N
\* from 0 up to the length of the ladder, and over the whole ladder when N
\* is omitted.
C27_LiquidityOfFirstLevels ==
    lastCall.op \in {"getBidLiquidity", "getAskLiquidity"}
        => LET ladder == IF lastCall.op = "getBidLiquidity"
                         THEN orderBook.bids ELSE orderBook.asks
               arg == lastCall.levels
           IN  /\ lastResult.asset = quoteOf(orderBook.pair)
               /\ ~arg.given
                    => lastResult.value = ValueOfFirst(ladder, Len(ladder))
               /\ (arg.given /\ arg.levels <= Len(ladder))
                    => lastResult.value = ValueOfFirst(ladder, arg.levels)

----------------------------------------------------------------------------
(* Properties of the value objects *)

\* An operation of Amount or Price between two operands has been called.
BinaryCalled == "type" \in DOMAIN lastCall /\ lastCall.type \in {"Amount", "Price"}

\* Its operands are of different assets (Amount) or pairs (Price).
MixedOperands ==
    IF lastCall.type = "Amount" THEN lastCall.a.asset # lastCall.b.asset
    ELSE \/ lastCall.p.pair # lastCall.q.pair
         \/ lastCall.op = "isBetween" /\ lastCall.p.pair # lastCall.r.pair

\* C28 as stated: every comparison and arithmetic operation between two
\* Amounts or two Prices, equals included, fails with a validation error
\* when the assets or pairs differ.
C28_MixedOperandsRefusedAsStated ==
    (BinaryCalled /\ MixedOperands) => lastError = InvalidValueObjectException

\* C28: add, subtract, subtractOrZero and the relational comparisons of
\* Amount, and subtract, the relational comparisons, min, max, isBetween and
\* the percentage changes of Price, fail with a validation error and return
\* nothing when the assets or pairs differ; equals does not fail: it returns
\* false for operands of different assets or pairs.
C28_MixedOperandsRefused ==
    (BinaryCalled /\ MixedOperands)
        => IF lastCall.op = "equals"
           THEN lastResult = ReturnedBoolean(FALSE)
           ELSE lastResult = Raised(InvalidValueObjectException)

\* C28 witness: two Amounts of equal magnitude and different assets have
\* been compared with greaterThanOrEqual, and the call has thrown.
C28_Witness ==
    /\ BinaryCalled
    /\ lastCall.type = "Amount"
    /\ lastCall.op = "greaterThanOrEqual"
    /\ lastCall.a.asset # lastCall.b.asset
    /\ lastCall.a.value = lastCall.b.value
    /\ lastError = InvalidValueObjectException

\* An operation that hands back a Price has returned one.
PriceReturned ==
    /\ "type" \in DOMAIN lastCall
    /\ \/ lastCall.type \in {"PriceFactory", "PriceDerivation"}
       \/ lastCall.type = "Price" /\ lastCall.op \in {"min", "max"}
    /\ lastResult.error = NoError

\* C29: every Price returned by an operation of Price (from, multiplyBy,
\* divideBy, applyPercentageChange, the tick roundings, addTicks, min, max)
\* is strictly greater than 0, whatever the receiver and the accepted
\* arguments, a percentage change of -100 included.
C29_ReturnedPricePositive ==
    PriceReturned => numberGT(lastResult.value.value, toNumber(0))

\* A fill has been constructed: Fill.from has returned one.
FillConstructed ==
    /\ "type" \in DOMAIN lastCall
    /\ lastCall.type = "Fill"
    /\ lastResult.error = NoError

\* C30: Fill construction succeeds only when the executed quantity is
\* strictly positive and of the base asset of the fill's pair, the execution
\* price is a price of the fill's pair, the fee is not negative and the
\* trade id is not blank: no fill with a price of another pair exists.
C30_FillConstruction ==
    FillConstructed
        => LET fill == lastResult.value
           IN  /\ isValidSize(fill.executedQuantity)
               /\ fill.executedQuantity.asset = baseOf(fill.pair)
               /\ fill.executionPrice.pair = fill.pair
               /\ isValidVolume(fill.fee)
               /\ \E i \in 1..Len(fill.tradeId) : fill.tradeId[i] \notin WhiteSpace

\* The chain a.add(b).subtract(b).equals(a) has been evaluated on two
\* Amounts of the same asset.
RoundTripCalled ==
    /\ "type" \in DOMAIN lastCall
    /\ lastCall.type = "AmountChain"
    /\ lastCall.a.asset = lastCall.b.asset

\* C31: for all Amounts a and b of the same asset,
\* a.add(b).subtract(b).equals(a) is true, and add and subtract leave
\* their operands as they were.
C31_AddSubtractRoundTrip ==
    RoundTripCalled
        => /\ lastResult.error = NoError
           /\ lastResult.value.boolean
           /\ lastResult.value.a = lastCall.a
           /\ lastResult.value.b = lastCall.b

----------------------------------------------------------------------------
(* Invariants of an order made by Order.create *)

\* The quantity still to be filled, on the decimal magnitudes: requested
\* less filled, and not below zero (in hundredths).
RemainingOf(p, fs) ==
    IF p.quantity > TotalOf(fs) THEN p.quantity - TotalOf(fs) ELSE 0

\* C33: in every reachable state of an order made by Order.create, FILLED
\* implies total filled >= requested and getRemainingQuantity() = 0;
\* PARTIALLY_FILLED implies at least one fill and total filled < requested;
\* PENDING, SUBMITTED or OPEN implies no fill; and getRemainingQuantity()
\* lies in [0, requested] and equals max(0, requested - total filled).
C33_FillStateInvariant ==
    LET remaining == getRemainingQuantity(parameters, fills).value
    IN  /\ status = "FILLED"
            => TotalOf(fills) >= parameters.quantity /\ remaining = toNumber(0)
        /\ status = "PARTIALLY_FILLED"
            => Len(fills) >= 1 /\ TotalOf(fills) < parameters.quantity
        /\ status \in {"PENDING", "SUBMITTED", "OPEN"} => fills = << >>
        /\ numberGE(remaining, toNumber(0))
        /\ numberGE(toNumber(parameters.quantity), remaining)
        /\ remaining = toNumber(RemainingOf(parameters, fills))

\* C34: for an order made by Order.create, completedAt is defined exactly
\* when isTerminal() is true; isActive() is the negation of isTerminal() in
\* every state; and exchangeOrderId and submittedAt are defined only after a
\* successful markSubmitted: never while PENDING, and no other call sets
\* them.
C34_CompletionAndSubmission ==
    /\ [](/\ completedAt # NoTime <=> isTerminal(status)
          /\ isActive(status) <=> ~isTerminal(status)
          /\ status = "PENDING" => exchangeOrderId = Undefined /\ submittedAt = NoTime)
    /\ [][(exchangeOrderId' # exchangeOrderId \/ submittedAt' # submittedAt)
             => /\ lastCall'.op = "markSubmitted"
                /\ lastError' = NoError
                /\ exchangeOrderId' = lastCall'.exchangeOrderId
                /\ submittedAt' # NoTime]_vars

\* C34 witness: a submitted and opened order has been filled completely: it
\* is terminal, with completedAt, exchangeOrderId and submittedAt defined.
C34_Witness ==
    /\ status = "FILLED"
    /\ parameters.type # "MARKET"
    /\ isTerminal(status)
    /\ completedAt # NoTime
    /\ exchangeOrderId # Undefined
    /\ submittedAt # NoTime

\* C35: a stop-loss or take-profit order holds a fill only after
\* markSubmitted and then markOpen have succeeded, in that order: with a
\* fill it has an exchange order id; it becomes SUBMITTED only from
\* PENDING, OPEN only from SUBMITTED, takes a fill only while OPEN or
\* PARTIALLY_FILLED, and so reaches FILLED only along PENDING, SUBMITTED,
\* OPEN, (PARTIALLY_FILLED)*, FILLED.
C35_ProtectiveOrderPath ==
    /\ []((~isMarketOrder(parameters) /\ fills # << >>)
              => exchangeOrderId # Undefined /\ submittedAt # NoTime)
    /\ [][~isMarketOrder(parameters)
             => /\ (status' = "SUBMITTED" /\ status # "SUBMITTED") => status = "PENDING"
                /\ (status' = "OPEN" /\ status # "OPEN") => status = "SUBMITTED"
                /\ fills' # fills
                      => /\ status \in {"OPEN", "PARTIALLY_FILLED"}
                         /\ status' \in {"PARTIALLY_FILLED", "FILLED"}
                /\ (status' = "PARTIALLY_FILLED" /\ status # "PARTIALLY_FILLED")
                      => status = "OPEN" /\ fills' # fills
                /\ (status' = "FILLED" /\ status # "FILLED")
                      => status \in {"OPEN", "PARTIALLY_FILLED"} /\ fills' # fills]_vars

\* C35 witness: a take-profit order has become FILLED from PARTIALLY_FILLED,
\* by a second fill.
C35_Witness ==
    /\ parameters.type = "TAKE_PROFIT"
    /\ status = "FILLED"
    /\ Len(fills) = 2
    /\ lastCall.op = "addFill"
    /\ lastError = NoError
    /\ exchangeOrderId # Undefined

----------------------------------------------------------------------------
(* Life cycle of a position made by Position.open *)

\* The place of a status in the order OPENING < OPEN < CLOSING < CLOSED.
StatusRank(st) ==
    CASE st = "OPENING" -> 0
      [] st = "OPEN" -> 1
      [] st = "CLOSING" -> 2
      [] st = "CLOSED" -> 3

\* C36: the status of a position is monotone along OPENING < OPEN < CLOSING
\* < CLOSED: no call moves it to an earlier status; OPEN is never skipped
\* (OPEN is entered from OPENING by markAsOpened, CLOSING from OPEN by
\* markAsClosing, CLOSED from OPEN or CLOSING by markAsClosed); CLOSING is
\* skipped only by markAsClosed called on an OPEN position.
C36_StatusMonotone ==
    [][richPosition # NoPosition
          => /\ StatusRank(richPosition'.status) >= StatusRank(richPosition.status)
             /\ richPosition'.status # richPosition.status
                   => /\ lastError' = NoError
                      /\ \/ /\ richPosition.status = "OPENING"
                            /\ richPosition'.status = "OPEN"
                            /\ lastCall'.op = "markAsOpened"
                         \/ /\ richPosition.status = "OPEN"
                            /\ richPosition'.status = "CLOSING"
                            /\ lastCall'.op = "markAsClosing"
                         \/ /\ richPosition.status \in {"OPEN", "CLOSING"}
                            /\ richPosition'.status = "CLOSED"
                            /\ lastCall'.op = "markAsClosed"]_vars

\* C36 witness: a position has been closed by markAsClosed without having
\* been CLOSING (no exit order was ever recorded).
C36_Witness ==
    /\ richPosition.status = "CLOSED"
    /\ richPosition.exitOrderId = Undefined
    /\ lastCall.op = "markAsClosed"
    /\ lastError = NoError

\* C37: for a position made by Position.open, in every reachable state,
\* actualEntryPrice, actualSize and openedAt are defined exactly when the
\* status is not OPENING; exitOrderId is defined only after markAsClosing
\* (no other call assigns it); actualExitPrice, fees, exitReason,
\* realizedPnL and closedAt are defined exactly when the status is CLOSED.
C37_FieldsDefinedByStatus ==
    /\ [](richPosition # NoPosition
            => LET opened == richPosition.status # "OPENING"
                   closed == richPosition.status = "CLOSED"
               IN  /\ richPosition.actualEntryPrice # NoPrice <=> opened
                   /\ richPosition.actualSize # NoAmount <=> opened
                   /\ richPosition.openedAt # NoTime <=> opened
                   /\ richPosition.exitOrderId # Undefined
                         => richPosition.status \in {"CLOSING", "CLOSED"}
                   /\ richPosition.actualExitPrice # NoPrice <=> closed
                   /\ richPosition.fees # NoAmount <=> closed
                   /\ richPosition.exitReason # Undefined <=> closed
                   /\ richPosition.realizedPnL # NoAmount <=> closed
                   /\ richPosition.closedAt # NoTime <=> closed)
    /\ [][(richPosition # NoPosition /\ richPosition'.exitOrderId # richPosition.exitOrderId)
             => lastCall'.op = "markAsClosing" /\ lastError' = NoError]_vars

\* C37 witness: a position closed after markAsClosing, with a realized P&L
\* of zero and no fees: every field of the close is defined.
C37_Witness ==
    /\ richPosition.status = "CLOSED"
    /\ richPosition.exitOrderId # Undefined
    /\ richPosition.actualExitPrice = richPosition.actualEntryPrice
    /\ richPosition.fees.value = toNumber(0)
    /\ richPosition.realizedPnL.value = toNumber(0)
    /\ richPosition.realizedPnL # NoAmount
    /\ richPosition.closedAt # NoTime

\* C38: whenever a position is OPEN, its current stop-loss and take-profit
\* levels are on the correct sides of the actual entry price (LONG:
\* stopLoss < actualEntry < takeProfit; SHORT: takeProfit < actualEntry <
\* stopLoss), for every actual entry price accepted by markAsOpened and
\* after any sequence of updateStopLoss and updateTakeProfit.
C38_LevelsAroundActualEntry ==
    (richPosition # NoPosition /\ richPosition.status = "OPEN")
        => /\ OnStopSide(richPosition.side, richPosition.intendedStopLoss,
                         richPosition.actualEntryPrice)
           /\ OnProfitSide(richPosition.side, richPosition.intendedTakeProfit,
                           richPosition.actualEntryPrice)

\* The position with the opposite side and the same prices and size.
Opposite(position) ==
    [position EXCEPT !.side = IF position.side = "LONG" THEN "SHORT" ELSE "LONG"]

\* C39: realized and unrealized P&L agree: closing an OPEN position with
\* markAsClosed at exit price x and fees f gives realizedPnL equal to
\* calculateUnrealizedPnL(x) taken just before the close, minus f; and the
\* LONG and SHORT P&L of the same entry, exit and size are exact negations
\* of each other before fees.
C39_RealizedAgreesWithUnrealized ==
    /\ [][(/\ richPosition # NoPosition
           /\ richPosition.status = "OPEN"
           /\ richPosition'.status = "CLOSED")
             => LET unrealized == calculateUnrealizedPnL(richPosition,
                                      richPosition'.actualExitPrice)
                IN  /\ unrealized.error = NoError
                    /\ richPosition'.realizedPnL
                          = amountSubtract(unrealized.amount, richPosition'.fees)]_vars
    /\ [](richPosition # NoPosition /\ richPosition.status = "OPEN"
            => \A x \in PriceSet :
                  x.pair = richPosition.tradingPair
                     => LET own == calculateUnrealizedPnL(richPosition, x)
                            other == calculateUnrealizedPnL(Opposite(richPosition), x)
                        IN  /\ own.error = NoError /\ other.error = NoError
                            /\ other.amount.asset = own.amount.asset
                            /\ other.amount.value = numberNegate(own.amount.value))

\* C39 witness: a position closed straight from OPEN, away from its entry
\* price and with fees, so that the P&L and the fees both count.
C39_Witness ==
    /\ richPosition.status = "CLOSED"
    /\ richPosition.exitOrderId = Undefined
    /\ richPosition.actualExitPrice # richPosition.actualEntryPrice
    /\ richPosition.fees.value # toNumber(0)
    /\ richPosition.realizedPnL.value # toNumber(0)
    /\ richPosition.realizedPnL
          # calculateRealizedPnL(richPosition, richPosition.actualEntryPrice,
                                 richPosition.actualExitPrice, richPosition.actualSize)

----------------------------------------------------------------------------
(* Top of the order book *)

\* C40: every successfully constructed order-book snapshot has a strictly
\* positive spread and a mid price strictly between best bid and best ask
\* (getSpread and getMidPrice return them), and no query of the snapshot
\* changes its bid or ask ladders.
C40_SpreadAndMidPrice ==
    /\ [](orderBook # NoOrderBook
            => LET bestBid == getBestBid(orderBook).price
                   bestAsk == getBestAsk(orderBook).price
               IN  /\ lastCall = [op |-> "getSpread"]
                         => /\ lastResult.error = NoError
                            /\ numberGT(lastResult.value.value, toNumber(0))
                   /\ lastCall = [op |-> "getMidPrice"]
                         => /\ lastResult.error = NoError
                            /\ numberGT(lastResult.value.value, bestBid.value)
                            /\ numberGT(bestAsk.value, lastResult.value.value))
    /\ [][orderBook # NoOrderBook => orderBook' = orderBook]_vars
====
